---------------------------- MODULE Spec2Model ----------------------------
(***************************************************************************)
(* Threadscape process-graph metrics engine (the HTML report builder,      *)
(* src/unnamed/part_001, and its DOCX sibling).                            *)
(* The store of the DAG editor (src/src/store/graphStore.ts) is a second   *)
(* state machine over the variables state, idb, pending and uuidCount.     *)
(*                                                                         *)
(* Conventions of the model:                                               *)
(*  - a JavaScript string that the code takes apart (area labels, actions) *)
(*    is a sequence of one-character strings; an id, which the code only   *)
(*    compares, is a TLA+ string ("" is the missing id);                   *)
(*  - a Date is [ok |-> TRUE, t |-> day number] and null is NoDate; every  *)
(*    Date the code builds is a local midnight, so getTime() is modelled   *)
(*    in days (86400000 ms) and weekMs is 7;                               *)
(*  - a JavaScript number that is a quotient is the exact fraction         *)
(*    <<numerator, denominator>> with a positive denominator.              *)
(***************************************************************************)
EXTENDS Integers, Sequences, FiniteSets, TLC

VARIABLES
  pc,           \* position of main(): "loop", "summary", "done", "crashed"
  opts,         \* what parseArgs returned
  projectFiles, \* the project.json files found, in name order
  pfIdx,        \* index in projectFiles of the batch loop's next project
  metrics,      \* main's `metrics`: the ProjectMetrics records pushed so far
  locals,       \* the locals of the last computeMetricsForProject call at its
                \* return: nodes, edges (the valid edges), buckets, scc
  summary,      \* main's `timeline` and `summary` (projectCount, agg)
  args,         \* parseArgs' `args`: the command-line arguments not yet read
  state,        \* the editor store: nodes, edges, selectedNodeId, nextNodeId
  idb,          \* the IndexedDB entry "dag-graph" of the editor
  pending,      \* the editor's async calls suspended at an await
  uuidCount     \* the number of generateUUID calls of the editor so far

\* The variables of the report builder and those of the editor.
reportVars == <<pc, opts, projectFiles, pfIdx, metrics, locals, summary, args>>

editorVars == <<state, idb, pending, uuidCount>>

vars == <<pc, opts, projectFiles, pfIdx, metrics, locals, summary, args,
          state, idb, pending, uuidCount>>

-----------------------------------------------------------------------------
(* Bounds of the model and the configuration of the run *)

MaxNodes == 3       \* nodes of a document of the graph corpus

MaxEdges == 3       \* distinct edges of a document of the graph corpus

MaxDates == 3       \* dates of DatePool a node may carry

MaxTEdges == 2      \* edges of a document of the temporal corpus

MaxAreas == 2       \* entries of a node's areas array

MaxProjects == 3    \* projects of a batch

MaxWeeks == 4       \* --max-weeks of the run

HubThreshold == 4   \* --hub-threshold (its default)

DefaultMaxWeeks == 200   \* --max-weeks (its default)

MaxUuids == 3       \* generateUUID calls of an editor session

MaxPending == 2     \* async calls of the editor suspended at the same time

MaxLoads == 1       \* loadFromIndexedDB calls suspended at the same time

-----------------------------------------------------------------------------
(* Generic helpers *)

Min2(a, b) == IF a <= b THEN a ELSE b

Max2(a, b) == IF a >= b THEN a ELSE b

Range(s) == {s[i] : i \in 1..Len(s)}

\* All sequences over S of length at most n.
SeqsUpTo(S, n) == UNION {[1..k -> S] : k \in 0..n}

\* Exact fractions <<n, d>>, d > 0; a zero denominator is NaN (0/0), which
\* compares false with everything.
Frac(n, d) == <<n, d>>

FracLe(a, b) == a[2] > 0 /\ b[2] > 0 /\ a[1] * b[2] <= b[1] * a[2]

FracEq(a, b) == a[2] > 0 /\ b[2] > 0 /\ a[1] * b[2] = b[1] * a[2]

FracAdd(a, b) == <<a[1] * b[2] + b[1] * a[2], a[2] * b[2]>>

FracMax(a, b) == IF FracLe(a, b) THEN b ELSE a

\* The number is an integer.
IsInteger(x) == x[2] > 0 /\ x[1] % x[2] = 0

Zero == Frac(0, 1)

Hundred == Frac(100, 1)

\* (a / b) * 100
Pct(a, b) == Frac(100 * a, b)

-----------------------------------------------------------------------------
(* parseDate *)

NoDate == [ok |-> FALSE, t |-> 0]

\* Days from 1970-01-01 to the first of month mo of year y (proleptic Gregorian).
DaysBeforeMonth(y, mo) ==
  LET yy  == IF mo <= 2 THEN y - 1 ELSE y
      era == yy \div 400
      yoe == yy - era * 400
      mp  == (mo + 9) % 12
      doy == (153 * mp + 2) \div 5
      doe == yoe * 365 + yoe \div 4 - yoe \div 100 + doy
  IN  era * 146097 + doe - 719468

\* parseDate(dateStr): a raw date is <<>> (absent or empty) or <<y, mo, d>>, the
\* text "YYYY-MM-DD"; a month outside 1..12 or a day outside 1..31 gives an
\* Invalid Date, hence null.
parseDate(raw) ==
  IF Len(raw) # 3 THEN NoDate
  ELSE IF raw[2] \notin 1..12 \/ raw[3] \notin 1..31 THEN NoDate
  ELSE [ok |-> TRUE, t |-> DaysBeforeMonth(raw[1], raw[2]) + raw[3] - 1]

-----------------------------------------------------------------------------
(* computeScc: Tarjan's algorithm, recursive as in the source *)

\* adjacency: one list per id, a target pushed per edge that passes the check.
Adjacency(ns, es) ==
  LET ids == {ns[i].id : i \in 1..Len(ns)}
      ok(e) == e.s \in ids /\ e.t \in ids /\ e.s # e.t
      tgt(L) == [i \in 1..Len(L) |-> L[i].t]
  IN  [id \in ids |-> tgt(SelectSeq(es, LAMBDA e : ok(e) /\ e.s = id))]

\* Variant: indexMap and lowMap live outside computeScc and keep the ids of
\* the projects processed so far.
SccInitShared ==
  LET seen == UNION {{projectFiles[j].nodes.items[i].id :
                        i \in 1..Len(projectFiles[j].nodes.items)} : j \in 1..(pfIdx - 1)}
  IN  [index |-> 0, stack |-> <<>>, onStack |-> {}, indexMap |-> [id \in seen |-> 0],
       lowMap |-> [id \in seen |-> 0], components |-> <<>>]

\* index, stack, onStack, indexMap, lowMap and components are created by each
\* call of computeScc.
SccInit ==
  [index |-> 0, stack |-> <<>>, onStack |-> {}, indexMap |-> <<>>,
   lowMap |-> <<>>, components |-> <<>>]

\* The while loop that pops the stack down to v.
RECURSIVE PopComponent(_, _, _)
PopComponent(st, v, comp) ==
  IF Len(st.stack) = 0 THEN [st EXCEPT !.components = Append(@, comp)]
  ELSE LET w   == st.stack[Len(st.stack)]
           st1 == [st EXCEPT !.stack = SubSeq(@, 1, Len(@) - 1),
                             !.onStack = @ \ {w}]
       IN  IF w = v THEN [st1 EXCEPT !.components = Append(@, Append(comp, w))]
           ELSE PopComponent(st1, v, Append(comp, w))

\* Variant: the low-link is not lowered by an on-stack neighbour.
OnStackLowNoUpdate(st, v, w) == st.lowMap[v]

\* The low-link taken from an on-stack neighbour w.
OnStackLow(st, v, w) == Min2(st.lowMap[v], st.indexMap[w])

RECURSIVE strongConnect(_, _, _)
RECURSIVE VisitNeighbours(_, _, _, _)
VisitNeighbours(st, v, adj, k) ==
  IF k > Len(adj[v]) THEN st
  ELSE LET w == adj[v][k]
       IN  IF w \notin DOMAIN st.indexMap
           THEN LET s1 == strongConnect(st, w, adj)
                    s2 == [s1 EXCEPT !.lowMap[v] = Min2(s1.lowMap[v], s1.lowMap[w])]
                IN  VisitNeighbours(s2, v, adj, k + 1)
           ELSE IF w \in st.onStack
           THEN VisitNeighbours([st EXCEPT !.lowMap[v] = OnStackLow(st, v, w)],
                                v, adj, k + 1)
           ELSE VisitNeighbours(st, v, adj, k + 1)

strongConnect(st, v, adj) ==
  LET s0 == [st EXCEPT !.indexMap = (v :> st.index) @@ @,
                       !.lowMap = (v :> st.index) @@ @,
                       !.index = @ + 1,
                       !.stack = Append(@, v),
                       !.onStack = @ \cup {v}]
      s1 == VisitNeighbours(s0, v, adj, 1)
  IN  IF s1.lowMap[v] = s1.indexMap[v] THEN PopComponent(s1, v, <<>>) ELSE s1

\* for (const id of ids) if (!indexMap.has(id)) strongConnect(id)
\* Variant: strongConnect is called for every node, visited or not.
RECURSIVE SccMainLoopEveryNode(_, _, _, _)
SccMainLoopEveryNode(st, ns, adj, i) ==
  IF i > Len(ns) THEN st
  ELSE SccMainLoopEveryNode(strongConnect(st, ns[i].id, adj), ns, adj, i + 1)

RECURSIVE SccMainLoop(_, _, _, _)
SccMainLoop(st, ns, adj, i) ==
  IF i > Len(ns) THEN st
  ELSE IF ns[i].id \in DOMAIN st.indexMap THEN SccMainLoop(st, ns, adj, i + 1)
  ELSE SccMainLoop(strongConnect(st, ns[i].id, adj), ns, adj, i + 1)

\* Variant: single-node components count as cyclic.
IsCyclicAnySize(c) == Len(c) > 0

\* components.filter((c) => c.length > 1)
IsCyclic(c) == Len(c) > 1

RECURSIVE MaxLen(_, _)
MaxLen(cs, i) == IF i > Len(cs) THEN 0 ELSE Max2(Len(cs[i]), MaxLen(cs, i + 1))

computeScc(ns, es) ==
  LET st     == SccMainLoop(SccInit, ns, Adjacency(ns, es), 1)
      cyclic == SelectSeq(st.components, IsCyclic)
  IN  [components  |-> st.components,
       cyclic      |-> cyclic,
       sccCount    |-> Len(cyclic),
       cyclicNodes |-> UNION {Range(cyclic[i]) : i \in 1..Len(cyclic)},
       largestScc  |-> MaxLen(cyclic, 1)]

-----------------------------------------------------------------------------
(* Strings as character sequences: toLowerCase, trim, replace *)

UpperChars ==
  <<"A","B","C","D","E","F","G","H","I","J","K","L","M",
    "N","O","P","Q","R","S","T","U","V","W","X","Y","Z">>

LowerChars ==
  <<"a","b","c","d","e","f","g","h","i","j","k","l","m",
    "n","o","p","q","r","s","t","u","v","w","x","y","z">>

DigitChars == {"0","1","2","3","4","5","6","7","8","9"}

\* \s of a regular expression, and what trim() strips
IsWs(c) == c \in {" ", "\t"}

\* [^a-z0-9]
IsNotLowerAlnum(c) == c \notin Range(LowerChars) \cup DigitChars

ToLowerChar(c) ==
  IF \E i \in 1..Len(UpperChars) : UpperChars[i] = c
  THEN LowerChars[CHOOSE i \in 1..Len(UpperChars) : UpperChars[i] = c]
  ELSE c

toLowerCase(s) == [i \in 1..Len(s) |-> ToLowerChar(s[i])]

RECURSIVE TrimStart(_)
TrimStart(s) == IF Len(s) > 0 /\ IsWs(s[1]) THEN TrimStart(Tail(s)) ELSE s

RECURSIVE TrimEnd(_)
TrimEnd(s) ==
  IF Len(s) > 0 /\ IsWs(s[Len(s)]) THEN TrimEnd(SubSeq(s, 1, Len(s) - 1)) ELSE s

trim(s) == TrimEnd(TrimStart(s))

\* The two character classes the code replaces: \s and [^a-z0-9].
InClass(c, class) == IF class = "\\s" THEN IsWs(c) ELSE IsNotLowerAlnum(c)

\* s.replace(/C+/g, " "): every maximal run of characters of class C becomes
\* one space; inRun tells that the previous character was of the class.
RECURSIVE ReplaceRuns(_, _, _)
ReplaceRuns(s, class, inRun) ==
  IF Len(s) = 0 THEN <<>>
  ELSE IF InClass(s[1], class)
       THEN (IF inRun THEN <<>> ELSE <<" ">>) \o ReplaceRuns(Tail(s), class, TRUE)
       ELSE <<s[1]>> \o ReplaceRuns(Tail(s), class, FALSE)

\* txt.includes(sub)
Includes(s, sub) ==
  \E i \in 0..(Len(s) - Len(sub)) : SubSeq(s, i + 1, i + Len(sub)) = sub

-----------------------------------------------------------------------------
(* canonicalAreaName, normalizeAreaList, macroFromAreas *)

sSpeculative == <<"s","p","e","c","u","l","a","t","i","v","e">>

sCommunication == <<"c","o","m","m","u","n","i","c","a","t","i","o","n">>

sInteraction == <<"i","n","t","e","r","a","c","t","i","o","n">>

sDesign == <<"d","e","s","i","g","n">>

Capitalized(s) == <<UpperChars[CHOOSE i \in 1..Len(LowerChars) : LowerChars[i] = s[1]]>> \o Tail(s)

\* "<Word> Design"
DesignName(word) == Capitalized(word) \o <<" ">> \o Capitalized(sDesign)

\* The text String(value ?? "") is the label itself; an undefined or null item
\* is the empty label.
canonicalAreaName(value) ==
  LET txt == trim(ReplaceRuns(value, "\\s", FALSE))
      low == toLowerCase(txt)
      is(word) == low = word \/ low = word \o <<" ">> \o sDesign
  IN  IF txt = <<>> THEN <<>>
      ELSE IF is(sSpeculative) THEN DesignName(sSpeculative)
      ELSE IF is(sCommunication) THEN DesignName(sCommunication)
      ELSE IF is(sInteraction) THEN DesignName(sInteraction)
      ELSE txt

\* The deduplication key of a mapped label.
AreaKey(mapped) ==
  ReplaceRuns(trim(ReplaceRuns(toLowerCase(mapped), "[^a-z0-9]", FALSE)),
              "\\s", FALSE)

\* Variant: the seen set is not consulted.
PushMappedNoSeen(acc, mapped, key) ==
  IF mapped = <<>> THEN acc
  ELSE IF key = <<>> THEN acc
  ELSE [seen |-> acc.seen \cup {key}, out |-> Append(acc.out, mapped)]

\* Variant: the mapped label is put in front of the list (out.unshift).
PushMappedFront(acc, mapped, key) ==
  IF mapped = <<>> THEN acc
  ELSE IF key = <<>> \/ key \in acc.seen THEN acc
  ELSE [seen |-> acc.seen \cup {key}, out |-> <<mapped>> \o acc.out]

\* push(raw) on the accumulator [seen, out]
PushMapped(acc, mapped, key) ==
  IF mapped = <<>> THEN acc
  ELSE IF key = <<>> \/ key \in acc.seen THEN acc
  ELSE [seen |-> acc.seen \cup {key}, out |-> Append(acc.out, mapped)]

\* const key = mapped.toLowerCase()...; the guards and the push follow.
PushCanonical(acc, mapped) == PushMapped(acc, mapped, AreaKey(mapped))

\* const mapped = canonicalAreaName(raw); ...
PushArea(acc, raw) == PushCanonical(acc, canonicalAreaName(raw))

RECURSIVE PushAll(_, _, _)
PushAll(acc, items, i) ==
  IF i > Len(items) THEN acc ELSE PushAll(PushArea(acc, items[i]), items, i + 1)

\* A JavaScript value that holds areas: undefined, one string, or an array.
Undefined == [kind |-> "undefined", s |-> <<>>, items |-> <<>>]

StrVal(s) == [kind |-> "string", s |-> s, items |-> <<>>]

ArrVal(items) == [kind |-> "array", s |-> <<>>, items |-> items]

\* apply(val): a falsy value (undefined, "") is skipped, an array is pushed
\* item by item, anything else is pushed itself.
ApplyAreas(acc, val) ==
  IF val.kind = "undefined" \/ (val.kind = "string" /\ val.s = <<>>) THEN acc
  ELSE IF val.kind = "array" THEN PushAll(acc, val.items, 1)
  ELSE PushArea(acc, val.s)

normalizeAreaList(areas, legacyMainAreas) ==
  ApplyAreas(ApplyAreas([seen |-> {}, out |-> <<>>], areas), legacyMainAreas).out

sSpecul == SubSeq(sSpeculative, 1, 6)

sComunic == <<"c","o","m","u","n","i","c">>

sCommunicat == SubSeq(sCommunication, 1, 10)

sInter == SubSeq(sInteraction, 1, 5)

\* Variant: among tied buckets the first in insertion order is returned.
macroFromAreasFirstOfTie(areas) ==
  LET low(i) == toLowerCase(areas[i])
      sp == Cardinality({i \in 1..Len(areas) : Includes(low(i), sSpecul)})
      co == Cardinality({i \in 1..Len(areas) :
                           Includes(low(i), sComunic) \/ Includes(low(i), sCommunicat)})
      it == Cardinality({i \in 1..Len(areas) : Includes(low(i), sInter)})
      top == Max2(sp, Max2(co, it))
  IN  IF top <= 0 THEN "unknown"
      ELSE IF sp = top THEN "speculative"
      ELSE IF co = top THEN "communication"
      ELSE "interaction"

macroFromAreas(areas) ==
  LET low(i) == toLowerCase(areas[i])
      sp == Cardinality({i \in 1..Len(areas) : Includes(low(i), sSpecul)})
      co == Cardinality({i \in 1..Len(areas) :
                           Includes(low(i), sComunic) \/ Includes(low(i), sCommunicat)})
      it == Cardinality({i \in 1..Len(areas) : Includes(low(i), sInter)})
      top == Max2(sp, Max2(co, it))
      tied == (IF sp = top THEN {"speculative"} ELSE {})
              \cup (IF co = top THEN {"communication"} ELSE {})
              \cup (IF it = top THEN {"interaction"} ELSE {})
  IN  IF top <= 0 THEN "unknown"
      ELSE IF Cardinality(tied) > 1 THEN "mixed"
      ELSE CHOOSE x \in tied : TRUE

-----------------------------------------------------------------------------
(* median *)

\* A JavaScript number or null: null is [ok |-> FALSE]; a number is an exact
\* fraction, NaN when its denominator is 0.
Null == [ok |-> FALSE, v |-> Zero]

Num(f) == [ok |-> TRUE, v |-> f]

\* Number.isFinite(x)
IsFinite(x) == x.ok /\ x.v[2] > 0

\* values.filter((v) => Number.isFinite(v)), as a list of fractions
Finite(values) ==
  LET kept == SelectSeq(values, IsFinite)
  IN  [i \in 1..Len(kept) |-> kept[i].v]

\* list.sort((a, b) => a - b): insertion sort, equal values keep their order.
RECURSIVE InsertSorted(_, _)
InsertSorted(s, x) ==
  IF Len(s) = 0 THEN <<x>>
  ELSE IF ~FracLe(s[1], x) THEN <<x>> \o s
  ELSE <<s[1]>> \o InsertSorted(Tail(s), x)

RECURSIVE SortAsc(_)
SortAsc(s) == IF Len(s) = 0 THEN <<>> ELSE InsertSorted(SortAsc(Tail(s)), s[1])

\* (a + b) / 2
HalfSum(a, b) == Frac(a[1] * b[2] + b[1] * a[2], 2 * a[2] * b[2])

MedianOfSorted(list, mid) ==
  IF Len(list) = 0 THEN Null
  ELSE IF Len(list) % 2 = 1 THEN Num(list[mid + 1])
  ELSE Num(HalfSum(list[mid], list[mid + 1]))

\* median: null when no value is finite.
median(values) == MedianOfSorted(SortAsc(Finite(values)), Len(Finite(values)) \div 2)

RECURSIVE SumFracs(_)
SumFracs(list) ==
  IF Len(list) = 0 THEN Zero ELSE FracAdd(list[1], SumFracs(Tail(list)))

MeanOfList(list) ==
  IF Len(list) = 0 THEN Null
  ELSE Num(Frac(SumFracs(list)[1], SumFracs(list)[2] * Len(list)))

\* mean: null when no value is finite.
mean(values) == MeanOfList(Finite(values))

MinMaxOfList(list) ==
  IF Len(list) = 0 THEN [min |-> Null, max |-> Null]
  ELSE [min |-> Num(list[CHOOSE i \in 1..Len(list) :
                           /\ \A j \in 1..Len(list) : FracLe(list[i], list[j])
                           /\ \A j \in 1..(i - 1) : ~FracEq(list[i], list[j])]),
        max |-> Num(list[CHOOSE i \in 1..Len(list) :
                           /\ \A j \in 1..Len(list) : FracLe(list[j], list[i])
                           /\ \A j \in 1..(i - 1) : ~FracEq(list[i], list[j])])]

\* minmax: {min: null, max: null} when no value is finite.
minmax(values) == MinMaxOfList(Finite(values))

-----------------------------------------------------------------------------
(* computeBuckets, computeInterlacing *)

weekDays == 7

\* The week of a date relative to minDate.
WeekOf(date, minDate) == Max2(0, (date.t - minDate.t) \div weekDays)

\* computeBuckets(nodes, minDate): a map from week to its counts; ns is the
\* list the caller passes (the nodes whose action is not "other").
computeBuckets(ns, minDate) ==
  LET datedIdx == {i \in 1..Len(ns) : ns[i].date.ok}
      weeks    == {WeekOf(ns[i].date, minDate) : i \in datedIdx}
      inWeek(w) == {i \in datedIdx : WeekOf(ns[i].date, minDate) = w}
  IN  [w \in weeks |->
         [exploring |-> Cardinality({i \in inWeek(w) : ns[i].action = "exploring"}),
          making    |-> Cardinality({i \in inWeek(w) : ns[i].action = "making"}),
          total     |-> Cardinality(inWeek(w))]]

RECURSIVE SumRatios(_, _)
SumRatios(bk, ws) ==
  IF ws = {} THEN Zero
  ELSE LET w == CHOOSE x \in ws : TRUE
       IN  FracAdd(Frac(Min2(bk[w].exploring, bk[w].making),
                        Max2(bk[w].exploring, bk[w].making)),
                   SumRatios(bk, ws \ {w}))

\* Variant: the quotient taken the wrong way round.
InterlacingIndexPerOverlap(nOverlap, nActive) ==
  IF nActive > 0 THEN Pct(nActive, Max2(1, nOverlap)) ELSE Zero

\* The share of active buckets that hold both modes.
InterlacingIndex(nOverlap, nActive) ==
  IF nActive > 0 THEN Pct(nOverlap, nActive) ELSE Zero

computeInterlacing(bk) ==
  LET active  == {w \in DOMAIN bk : bk[w].total > 0}
      overlap == {w \in active : bk[w].exploring > 0 /\ bk[w].making > 0}
      sum     == SumRatios(bk, overlap)
  IN  [activeBuckets    |-> Cardinality(active),
       overlapBuckets   |-> Cardinality(overlap),
       interlacingIndex |-> InterlacingIndex(Cardinality(overlap), Cardinality(active)),
       overlapIntensity |->
         IF overlap # {} THEN Frac(100 * sum[1], sum[2] * Cardinality(overlap))
         ELSE Zero]

-----------------------------------------------------------------------------
(* computeMetricsForProject *)

sExploring == <<"e","x","p","l","o","r","i","n","g">>

sMaking == <<"m","a","k","i","n","g">>

\* nodes = rawNodes.map(...)
NodeOf(id, action, date, areas) ==
  [id     |-> id,
   action |-> IF action = sExploring THEN "exploring"
              ELSE IF action = sMaking THEN "making" ELSE "other",
   date   |-> date,
   areas  |-> areas,
   macro  |-> macroFromAreas(areas)]

\* The legacy fields handed to normalizeAreaList, in the code's order.
LegacyAreas(n) ==
  ArrVal((IF n.mainAreas.kind = "array" THEN n.mainAreas.items ELSE <<>>)
         \o <<n.mainArea, n.mainarea>>)

NormalizeNode(n) ==
  NodeOf(n.id, trim(toLowerCase(n.action)), parseDate(n.date),
         normalizeAreaList(n.areas, LegacyAreas(n)))

\* idToIndex: a later node with the same id overwrites the earlier entry.
IdToIndex(ns) ==
  [id \in {ns[i].id : i \in 1..Len(ns)} |->
     CHOOSE i \in 1..Len(ns) : ns[i].id = id /\ \A j \in (i + 1)..Len(ns) : ns[j].id # id]

\* Variant: self-loops pass the filter.
EdgeKeptWithSelfLoops(e, ids) == e.s # "" /\ e.t # "" /\ e.s \in ids /\ e.t \in ids

\* The filter of rawEdges.
EdgeKept(e, ids) == e.s # "" /\ e.t # "" /\ e.s # e.t /\ e.s \in ids /\ e.t \in ids

ValidEdges(rawEdges, ns) ==
  SelectSeq(rawEdges, LAMBDA e : EdgeKept(e, {ns[i].id : i \in 1..Len(ns)}))

\* inDeg / outDeg after the loop over edges.
OutDeg(ns, es) ==
  [id \in {ns[i].id : i \in 1..Len(ns)} |-> Len(SelectSeq(es, LAMBDA e : e.s = id))]

\* Variant: the in-degree counts the distinct sources, not the edges.
InDegDistinctSources(ns, es) ==
  [id \in {ns[i].id : i \in 1..Len(ns)} |->
     Cardinality({es[k].s : k \in {j \in 1..Len(es) : es[j].t = id}})]

InDeg(ns, es) ==
  [id \in {ns[i].id : i \in 1..Len(ns)} |-> Len(SelectSeq(es, LAMBDA e : e.t = id))]

\* Variant: no guard for fewer than two nodes.
DensityNoGuard(nCount, eCount) == Pct(eCount, nCount * (nCount - 1))

\* density, already multiplied by 100 as in the returned record.
Density(nCount, eCount) ==
  IF nCount > 1 THEN Pct(eCount, nCount * (nCount - 1)) ELSE Zero

\* The character U+2192 that joins the two ids of an edge key.
Arrow == "->"

DigitOrder == <<"0","1","2","3","4","5","6","7","8","9">>

\* The characters of ids in increasing order of their UTF-16 code unit.
CodeOrder == DigitOrder \o UpperChars \o LowerChars \o <<Arrow>>

CharLt(a, b) ==
  \E i, j \in 1..Len(CodeOrder) : CodeOrder[i] = a /\ CodeOrder[j] = b /\ i < j

\* a < b on JavaScript strings.
RECURSIVE StrLt(_, _)
StrLt(a, b) ==
  IF Len(b) = 0 THEN FALSE
  ELSE IF Len(a) = 0 THEN TRUE
  ELSE IF a[1] = b[1] THEN StrLt(Tail(a), Tail(b))
  ELSE CharLt(a[1], b[1])

\* The text of each node id of the corpora.
IdText ==
  [id \in {"", "N1", "N2", "N3", "N4", "N5", "A", "B", "N1->N2"} |->
     CASE id = "" -> <<>>
       [] id = "N1" -> <<"N", "1">>
       [] id = "N2" -> <<"N", "2">>
       [] id = "N3" -> <<"N", "3">>
       [] id = "N4" -> <<"N", "4">>
       [] id = "N5" -> <<"N", "5">>
       [] id = "A" -> <<"A">>
       [] id = "B" -> <<"B">>
       [] id = "N1->N2" -> <<"N", "1", Arrow, "N", "2">>]

\* Variant: the key of the validator, `${s}→${t}${dashed ? "|d" : ""}`.
EdgeKeyTextDashed(e) ==
  IdText[e.s] \o <<Arrow>> \o IdText[e.t] \o (IF e.dashed THEN <<"|", "d">> ELSE <<>>)

\* `${e.s}→${e.t}`
EdgeKeyText(e) == IdText[e.s] \o <<Arrow>> \o IdText[e.t]

\* key.split("→"): the parts between the separators; cur is the part being
\* read.
RECURSIVE SplitOn(_, _, _)
SplitOn(s, sep, cur) ==
  IF Len(s) = 0 THEN <<cur>>
  ELSE IF s[1] = sep THEN <<cur>> \o SplitOn(Tail(s), sep, <<>>)
  ELSE SplitOn(Tail(s), sep, Append(cur, s[1]))

\* const [from, to] = key.split("→"); rev = `${to}→${from}`;
\* edgePairs.has(rev) && from < to
KeyCounts(key, parts, edgePairs) ==
  /\ (parts[2] \o <<Arrow>> \o parts[1]) \in edgePairs
  /\ StrLt(parts[1], parts[2])

ReciprocalPairs(es) ==
  LET edgePairs == {EdgeKeyText(es[i]) : i \in 1..Len(es)}
  IN  Cardinality({key \in edgePairs : KeyCounts(key, SplitOn(key, Arrow, <<>>), edgePairs)})

-----------------------------------------------------------------------------
(* parseArgs: the options of the run *)

NaN == Frac(0, 0)

Infinity == Frac(1, 0)

\* The characters of each command-line argument of the corpora.
ArgText ==
  [a \in {"--output", "--hub-threshold", "--max-weeks", "--title",
          "abc", "0", "-3", "2", "4", "5", "200", "2.5", "4.5", "Infinity"} |->
     CASE a = "--output" -> <<"-","-","o","u","t","p","u","t">>
       [] a = "--hub-threshold" ->
            <<"-","-","h","u","b","-","t","h","r","e","s","h","o","l","d">>
       [] a = "--max-weeks" -> <<"-","-","m","a","x","-","w","e","e","k","s">>
       [] a = "--title" -> <<"-","-","t","i","t","l","e">>
       [] a = "abc" -> <<"a","b","c">>
       [] a = "0" -> <<"0">>
       [] a = "-3" -> <<"-","3">>
       [] a = "2" -> <<"2">>
       [] a = "4" -> <<"4">>
       [] a = "5" -> <<"5">>
       [] a = "200" -> <<"2","0","0">>
       [] a = "2.5" -> <<"2",".","5">>
       [] a = "4.5" -> <<"4",".","5">>
       [] a = "Infinity" -> <<"I","n","f","i","n","i","t","y">>]

DigitValue(c) == CHOOSE d \in 0..9 : DigitOrder[d + 1] = c

\* The value of a run of decimal digits read after acc.
RECURSIVE DigitsValue(_, _)
DigitsValue(s, acc) ==
  IF Len(s) = 0 THEN acc ELSE DigitsValue(Tail(s), 10 * acc + DigitValue(s[1]))

RECURSIVE PowerOfTen(_)
PowerOfTen(k) == IF k = 0 THEN 1 ELSE 10 * PowerOfTen(k - 1)

\* The number of an unsigned decimal literal given as its parts around ".".
UnsignedNumber(parts) ==
  LET whole == parts[1]
      frac  == IF Len(parts) = 2 THEN parts[2] ELSE <<>>
  IN  IF /\ Len(parts) <= 2
         /\ Len(whole) + Len(frac) > 0
         /\ \A i \in 1..Len(whole) : whole[i] \in DigitChars
         /\ \A i \in 1..Len(frac) : frac[i] \in DigitChars
      THEN Frac(DigitsValue(whole \o frac, 0), PowerOfTen(Len(frac)))
      ELSE NaN

\* Number(text) for a text without blanks, exponent or radix prefix: a
\* signed decimal literal, "Infinity", or NaN for anything else.
Number(s) ==
  LET neg  == Len(s) > 0 /\ s[1] = "-"
      body == IF Len(s) > 0 /\ s[1] \in {"-", "+"} THEN Tail(s) ELSE s
      u    == IF body = ArgText["Infinity"] THEN Infinity
              ELSE UnsignedNumber(SplitOn(body, ".", <<>>))
  IN  IF Len(s) = 0 THEN Frac(0, 1)
      ELSE IF neg THEN Frac(0 - u[1], u[2]) ELSE u

\* Number(x) || d for a number x: NaN and 0 are falsy.
NumberOr(x, d) == IF x[1] = 0 THEN Frac(d, 1) ELSE x

\* args.shift() || d: the next argument, or d when there is none.
ShiftOr(rest, d) == IF Len(rest) = 0 THEN d ELSE rest[1]

\* The while loop of parseArgs; out has the two numeric options (--output
\* and --title consume their value and set options no metric reads).
RECURSIVE ArgsLoop(_, _)
ArgsLoop(rest, out) ==
  IF Len(rest) = 0 THEN out
  ELSE IF rest[1] \in {"--output", "--title"} THEN ArgsLoop(SubSeq(rest, 3, Len(rest)), out)
  ELSE IF rest[1] = "--hub-threshold"
       THEN ArgsLoop(SubSeq(rest, 3, Len(rest)),
                     [out EXCEPT !.hubThreshold = Number(ArgText[ShiftOr(Tail(rest), "4")])])
  ELSE IF rest[1] = "--max-weeks"
       THEN ArgsLoop(SubSeq(rest, 3, Len(rest)),
                     [out EXCEPT !.maxWeeks = Number(ArgText[ShiftOr(Tail(rest), "200")])])
  ELSE ArgsLoop(Tail(rest), out)

\* if (!Number.isFinite(v) || v < low) v = default
OptionOr(v, low, d) == IF v[2] = 0 \/ ~FracLe(Frac(low, 1), v) THEN Frac(d, 1) ELSE v

parseArgs(argv) ==
  LET out == ArgsLoop(argv, [hubThreshold |-> Frac(HubThreshold, 1),
                             maxWeeks |-> Frac(DefaultMaxWeeks, 1)])
  IN  [hubThreshold |-> OptionOr(out.hubThreshold, 1, HubThreshold),
       maxWeeks     |-> OptionOr(out.maxWeeks, 4, DefaultMaxWeeks)]

\* Variant: a node of several buckets counts as classified.
macroOkWithMixed(x) == x \in {"speculative", "communication", "interaction", "mixed"}

\* const macroOk = (m) => m === "speculative" || m === "communication" || m === "interaction"
macroOk(x) == x \in {"speculative", "communication", "interaction"}

\* Variant: the sources of E->M edges taken as the population.
ConversionRateAmongSources(withMakingOut, eToM, nExploring) ==
  IF nExploring > 0 THEN Pct(Cardinality(withMakingOut), Cardinality(withMakingOut))
  ELSE Zero

\* Variant: E->M edges counted instead of their distinct sources.
ConversionRateByEdges(withMakingOut, eToM, nExploring) ==
  IF nExploring > 0 THEN Pct(eToM, nExploring) ELSE Zero

\* The number of distinct sources of E->M edges over the number of exploring
\* nodes.
ConversionRate(withMakingOut, eToM, nExploring) ==
  IF nExploring > 0 THEN Pct(Cardinality(withMakingOut), nExploring) ELSE Zero

\* minDate: the smallest date of `dated`, the nodes that have a date.
MinDateOf(ns) ==
  LET dated == {i \in 1..Len(ns) : ns[i].date.ok}
  IN  IF dated = {} THEN NoDate
      ELSE LET i == CHOOSE k \in dated : \A j \in dated : ns[k].date.t <= ns[j].date.t
           IN  ns[i].date

MaxDateOf(ns) ==
  LET dated == {i \in 1..Len(ns) : ns[i].date.ok}
  IN  IF dated = {} THEN NoDate
      ELSE LET i == CHOOSE k \in dated : \A j \in dated : ns[k].date.t >= ns[j].date.t
           IN  ns[i].date

\* buckets = minDate ? computeBuckets(nodes.filter(action !== "other"), minDate)
\*                   : new Map()
BucketsOf(ns) ==
  IF MinDateOf(ns).ok
  THEN computeBuckets(SelectSeq(ns, LAMBDA n : n.action # "other"), MinDateOf(ns))
  ELSE <<>>

\* The locals of computeMetricsForProject at its return.
LocalsOf(ns, es) ==
  [nodes |-> ns, edges |-> es, buckets |-> BucketsOf(ns), scc |-> computeScc(ns, es)]

\* const edges = edgesRaw.map(...).filter(...), over the normalized nodes.
LocalsWith(ns, edgesRaw) == LocalsOf(ns, ValidEdges(edgesRaw, ns))

MetricsLocals(doc) ==
  LocalsWith([i \in 1..Len(doc.nodes) |-> NormalizeNode(doc.nodes[i])], doc.edges)

\* Variant: a negative difference is kept.
HasLatencyAnySign(a, b) == a.date.ok /\ b.date.ok

\* if (a.date && b.date) { diff = ...; if (Number.isFinite(diff) && diff >= 0) ... }
HasLatency(a, b) == a.date.ok /\ b.date.ok /\ b.date.t - a.date.t >= 0

\* The record computeMetricsForProject returns, from its locals.
MetricsReturn(projectName, o, loc) ==
  LET ns     == loc.nodes
      es     == loc.edges
      idx    == IdToIndex(ns)
      nCount == Len(ns)
      eCount == Len(es)
      inDeg  == InDeg(ns, es)
      outDeg == OutDeg(ns, es)
      nExploring == Len(SelectSeq(ns, LAMBDA n : n.action = "exploring"))
      hubThreshold == FracMax(Frac(1, 1), NumberOr(o.hubThreshold, HubThreshold))
      A(e)   == ns[idx[e.s]]
      B(e)   == ns[idx[e.t]]
      macroEdge(e) == macroOk(A(e).macro) /\ macroOk(B(e).macro)
      macroEdgesConsidered == Len(SelectSeq(es, macroEdge))
      crossMacroEdges == Len(SelectSeq(es, LAMBDA e : macroEdge(e) /\ A(e).macro # B(e).macro))
      isEtoM(e) == A(e).action = "exploring" /\ B(e).action = "making"
      isMtoE(e) == A(e).action = "making" /\ B(e).action = "exploring"
      interlacingEdges == SelectSeq(es, LAMBDA e : isEtoM(e) \/ isMtoE(e))
      eToM   == Len(SelectSeq(es, isEtoM))
      mToE   == Len(SelectSeq(es, isMtoE))
      exploringWithMakingOut == {A(es[i]).id : i \in {k \in 1..Len(es) : isEtoM(es[k])}}
      latencyEdges == SelectSeq(es, LAMBDA e : isEtoM(e) /\ HasLatency(A(e), B(e)))
      eToMLatencyDays == [i \in 1..Len(latencyEdges) |->
                            B(latencyEdges[i]).date.t - A(latencyEdges[i]).date.t]
      interlacingEdgesMacroConsidered == Len(SelectSeq(interlacingEdges, macroEdge))
      crossInterlacingEdges ==
        Len(SelectSeq(interlacingEdges, LAMBDA e : macroEdge(e) /\ A(e).macro # B(e).macro))
      minDate == MinDateOf(ns)
      maxDate == MaxDateOf(ns)
      temporal(e) == A(e).date.ok /\ B(e).date.ok
      temporalEdges == Len(SelectSeq(es, temporal))
      temporalBackEdges == Len(SelectSeq(es, LAMBDA e : temporal(e) /\ B(e).date.t < A(e).date.t))
      interlacing == computeInterlacing(loc.buckets)
      multiArea == Len(SelectSeq(ns, LAMBDA n : Len(n.areas) > 1))
      RECURSIVE SumAreas(_)
      SumAreas(i) == IF i > nCount THEN 0 ELSE Len(ns[i].areas) + SumAreas(i + 1)
  IN  [project    |-> projectName,
       nodes      |-> nCount,
       edges      |-> eCount,
       exploring  |-> nExploring,
       making     |-> Len(SelectSeq(ns, LAMBDA n : n.action = "making")),
       other      |-> Len(SelectSeq(ns, LAMBDA n : n.action = "other")),
       sources    |-> Len(SelectSeq(ns, LAMBDA n : inDeg[n.id] = 0)),
       sinks      |-> Len(SelectSeq(ns, LAMBDA n : outDeg[n.id] = 0)),
       interlacingIndex |-> interlacing.interlacingIndex,
       overlapIntensity |-> interlacing.overlapIntensity,
       activeBuckets    |-> interlacing.activeBuckets,
       overlapBuckets   |-> interlacing.overlapBuckets,
       sccCount   |-> loc.scc.sccCount,
       largestScc |-> loc.scc.largestScc,
       cycleParticipation |->
         IF nCount > 0 THEN Pct(Cardinality(loc.scc.cyclicNodes), nCount) ELSE Zero,
       conversionRate |-> ConversionRate(exploringWithMakingOut, eToM, nExploring),
       feedbackRatio  |-> IF eToM > 0 THEN Pct(mToE, eToM) ELSE Zero,
       leadtimeMedianDays |->
         median([i \in 1..Len(eToMLatencyDays) |-> Num(Frac(eToMLatencyDays[i], 1))]),
       eToMEdges  |-> eToM,
       mToEEdges  |-> mToE,
       interlacingEdges |-> Len(interlacingEdges),
       crossMacroShare |->
         IF macroEdgesConsidered > 0 THEN Pct(crossMacroEdges, macroEdgesConsidered)
         ELSE Zero,
       macroEdgeCoverage |->
         IF eCount > 0 THEN Pct(macroEdgesConsidered, eCount) ELSE Zero,
       crossInterlacingShare |->
         IF interlacingEdgesMacroConsidered > 0
         THEN Pct(crossInterlacingEdges, interlacingEdgesMacroConsidered) ELSE Zero,
       interlacingMacroCoverage |->
         IF Len(interlacingEdges) > 0
         THEN Pct(interlacingEdgesMacroConsidered, Len(interlacingEdges)) ELSE Zero,
       multiAreaShare |-> IF nCount > 0 THEN Pct(multiArea, nCount) ELSE Zero,
       avgAreas   |-> IF nCount > 0 THEN Frac(SumAreas(1), nCount) ELSE Zero,
       convergent |-> Len(SelectSeq(ns, LAMBDA n : FracLe(hubThreshold, Frac(inDeg[n.id], 1)))),
       divergent  |-> Len(SelectSeq(ns, LAMBDA n : FracLe(hubThreshold, Frac(outDeg[n.id], 1)))),
       reciprocityPairs |-> ReciprocalPairs(es),
       density    |-> Density(nCount, eCount),
       temporalBackShare |->
         IF temporalEdges > 0 THEN Pct(temporalBackEdges, temporalEdges) ELSE Zero,
       minDate    |-> minDate,
       maxDate    |-> maxDate,
       spanDays   |-> IF minDate.ok /\ maxDate.ok
                      THEN Num(Frac(maxDate.t - minDate.t, 1)) ELSE Null]

computeMetricsForProject(projectName, doc, o) ==
  MetricsReturn(projectName, o, MetricsLocals(doc))

-----------------------------------------------------------------------------
(* computePerProjectTimelines *)

\* The nodes the timeline uses: action exploring/making and a date.
TimelineNodes(rawNodes) ==
  LET ns == [k \in 1..Len(rawNodes) |->
               [action |-> trim(toLowerCase(rawNodes[k].action)),
                date   |-> parseDate(rawNodes[k].date)]]
  IN  SelectSeq(ns, LAMBDA n : n.date.ok /\ (n.action = sExploring \/ n.action = sMaking))

\* Math.min(...em.map(date.getTime()))
TimelineMin(em) ==
  LET k == CHOOSE a \in 1..Len(em) : \A b \in 1..Len(em) : em[a].date.t <= em[b].date.t
  IN  em[k].date

\* tl: maxWeeks entries {ex, mk}, indexed here from 1 (week w is entry w + 1).
ProjectTimeline(em, maxWeeks) ==
  LET min == TimelineMin(em)
      at(w, act) == Cardinality({k \in 1..Len(em) :
                                   WeekOf(em[k].date, min) = w /\ em[k].action = act})
  IN  [w1 \in 1..maxWeeks |-> [ex |-> at(w1 - 1, sExploring), mk |-> at(w1 - 1, sMaking)]]

-----------------------------------------------------------------------------
(* The DAG editor: the store of src/src/store/graphStore.ts *)

\* generateUUID: a value no earlier call returned (the collisions of the
\* random uuid are left out); count is the number of earlier calls.
UuidPool == <<"u1", "u2", "u3", "u4", "u5", "u6">>

generateUUID(count) == UuidPool[count + 1]

RECURSIVE DigitsOf(_)
DigitsOf(k) ==
  IF k < 10 THEN <<DigitOrder[k + 1]>>
  ELSE Append(DigitsOf(k \div 10), DigitOrder[(k % 10) + 1])

\* `${x}` for a number of the store: NaN or an integer.
NumberText(x) ==
  IF x = NaN THEN <<"N", "a", "N">>
  ELSE IF x[1] < 0 THEN <<"-">> \o DigitsOf(0 - x[1])
  ELSE DigitsOf(x[1])

generateNodeId(nextId) == <<"N">> \o NumberText(nextId)

RECURSIVE SkipSpaces(_)
SkipSpaces(s) == IF Len(s) > 0 /\ s[1] = " " THEN SkipSpaces(Tail(s)) ELSE s

RECURSIVE DigitPrefix(_)
DigitPrefix(s) ==
  IF Len(s) > 0 /\ s[1] \in Range(DigitOrder) THEN <<s[1]>> \o DigitPrefix(Tail(s))
  ELSE <<>>

\* The text after leading spaces and an optional sign.
Unsigned(s) ==
  IF Len(SkipSpaces(s)) > 0 /\ SkipSpaces(s)[1] \in {"-", "+"}
  THEN Tail(SkipSpaces(s)) ELSE SkipSpaces(s)

\* parseInt(s) in radix 10: the leading decimal digits after spaces and a
\* sign, NaN when there is none (the prefix 0x is not part of any id here).
parseInt(s) ==
  IF Len(DigitPrefix(Unsigned(s))) = 0 THEN NaN
  ELSE IF Len(SkipSpaces(s)) > 0 /\ SkipSpaces(s)[1] = "-"
  THEN Frac(0 - DigitsValue(DigitPrefix(Unsigned(s)), 0), 1)
  ELSE Frac(DigitsValue(DigitPrefix(Unsigned(s)), 0), 1)

\* s.slice(1)
Slice1(s) == IF Len(s) = 0 THEN <<>> ELSE Tail(s)

\* Math.max(...values, acc): NaN as soon as one argument is NaN.
RECURSIVE MathMax(_, _)
MathMax(values, acc) ==
  IF Len(values) = 0 THEN acc
  ELSE IF values[1] = NaN \/ acc = NaN THEN NaN
  ELSE MathMax(Tail(values), IF values[1][1] > acc[1] THEN values[1] ELSE acc)

\* x + 1
PlusOne(x) == IF x = NaN THEN NaN ELSE Frac(x[1] + 1, 1)

\* Math.max(...document.nodes.map((n) => parseInt(n.id.slice(1))), 0) + 1
nextNodeIdOf(ns) ==
  PlusOne(MathMax([k \in 1..Len(ns) |-> parseInt(Slice1(ns[k].id))], Frac(0, 1)))

\* selectedNodeId: null
NullId == "null"

\* The store as created.
EmptyStore ==
  [nodes |-> <<>>, edges |-> <<>>, selectedNodeId |-> NullId, nextNodeId |-> Frac(1, 1)]

\* get("dag-graph") before the first save: undefined.
NoDocument == [found |-> FALSE, nodes |-> <<>>, edges |-> <<>>]

EditorStart ==
  /\ state = EmptyStore
  /\ idb = NoDocument
  /\ pending = {}
  /\ uuidCount = 0

UuidsOf(ns) == {ns[k].uuid : k \in 1..Len(ns)}

\* addNode: the new node gets the id N<nextNodeId> and a fresh uuid.
addNode(st, uuid) ==
  [st EXCEPT !.nodes = Append(@, [id |-> generateNodeId(st.nextNodeId), uuid |-> uuid,
                                  files |-> <<>>]),
             !.nextNodeId = PlusOne(st.nextNodeId)]

\* Variant: the incident edges are kept.
deleteNodeKeepingEdges(st, uuid) ==
  [st EXCEPT !.nodes = SelectSeq(@, LAMBDA n : n.uuid # uuid),
             !.selectedNodeId = IF @ = uuid THEN NullId ELSE @]

deleteNode(st, uuid) ==
  [st EXCEPT !.nodes = SelectSeq(@, LAMBDA n : n.uuid # uuid),
             !.edges = SelectSeq(@, LAMBDA e : e.source # uuid /\ e.target # uuid),
             !.selectedNodeId = IF @ = uuid THEN NullId ELSE @]

addEdge(st, id, source, target) ==
  [st EXCEPT !.edges = Append(@, [id |-> id, source |-> source, target |-> target])]

deleteEdge(st, id) == [st EXCEPT !.edges = SelectSeq(@, LAMBDA e : e.id # id)]

setSelectedNode(st, id) == [st EXCEPT !.selectedNodeId = id]

\* Variant: the node's files are replaced by the new asset.
addFileSetStateReplacing(st, call) ==
  [st EXCEPT !.nodes =
     [k \in 1..Len(st.nodes) |->
        IF st.nodes[k].uuid = call.nodeId
        THEN [st.nodes[k] EXCEPT !.files = <<call.assetRef>>]
        ELSE st.nodes[k]]]

\* The setState of addFileToNode, applied to the state at its resumption.
addFileSetState(st, call) ==
  [st EXCEPT !.nodes =
     [k \in 1..Len(st.nodes) |->
        IF st.nodes[k].uuid = call.nodeId
        THEN [st.nodes[k] EXCEPT !.files = Append(@, call.assetRef)]
        ELSE st.nodes[k]]]

\* The setState of loadFromIndexedDB and of importFromZIP.
setDocument(st, document) ==
  [st EXCEPT !.nodes = document.nodes, !.edges = document.edges,
             !.nextNodeId = nextNodeIdOf(document.nodes)]

\* A suspended call: addFileToNode at `await file.arrayBuffer()`, or
\* loadFromIndexedDB at `await get("dag-graph")` with the entry it will get.
FileCall(nodeId, assetRef) ==
  [kind |-> "addFile", nodeId |-> nodeId, assetRef |-> assetRef, document |-> NoDocument]

NoAsset == [id |-> "", nodeId |-> "", filename |-> ""]

LoadCall(document) ==
  [kind |-> "load", nodeId |-> "", assetRef |-> NoAsset, document |-> document]

\* The files the user attaches, and the graph.json of the ZIP files imported:
\* a chain exported by the editor, a node whose id an earlier tool wrote, and
\* nodes stored out of order.
FileNames == {"a.png", "b.pdf"}

ImportNode(id, uuid) == [id |-> id, uuid |-> uuid, files |-> <<>>]

ImportDocuments ==
  {[nodes |-> <<ImportNode(<<"N", "1">>, "a"), ImportNode(<<"N", "2">>, "b")>>,
    edges |-> <<[id |-> "e", source |-> "a", target |-> "b"]>>],
   [nodes |-> <<ImportNode(<<"d", "r", "a", "f", "t">>, "a")>>, edges |-> <<>>],
   [nodes |-> <<ImportNode(<<"N", "3">>, "a"), ImportNode(<<"N", "1">>, "b")>>,
    edges |-> <<>>]}

\* Toolbar.handleNewNode, GraphCanvas.onDrop
AddNode ==
  /\ uuidCount < MaxUuids
  /\ state' = addNode(state, generateUUID(uuidCount))
  /\ uuidCount' = uuidCount + 1
  /\ UNCHANGED <<idb, pending>>
  /\ UNCHANGED reportVars

\* deleteNode(uuid); the toolbar calls it with the selected node.
DeleteNode ==
  /\ \E uuid \in UuidsOf(state.nodes) : state' = deleteNode(state, uuid)
  /\ UNCHANGED <<idb, pending, uuidCount>>
  /\ UNCHANGED reportVars

\* GraphCanvas.onConnect: a connection drawn between two nodes of the canvas
\* (from a node to itself included).
AddEdge ==
  /\ uuidCount < MaxUuids
  /\ \E source \in UuidsOf(state.nodes), target \in UuidsOf(state.nodes) :
       state' = addEdge(state, generateUUID(uuidCount), source, target)
  /\ uuidCount' = uuidCount + 1
  /\ UNCHANGED <<idb, pending>>
  /\ UNCHANGED reportVars

\* GraphCanvas.onEdgesDelete
DeleteEdge ==
  /\ \E k \in 1..Len(state.edges) : state' = deleteEdge(state, state.edges[k].id)
  /\ UNCHANGED <<idb, pending, uuidCount>>
  /\ UNCHANGED reportVars

\* NodeList.handleNodeClick
SetSelectedNode ==
  /\ \E id \in UuidsOf(state.nodes) :
       /\ id # state.selectedNodeId
       /\ state' = setSelectedNode(state, id)
  /\ UNCHANGED <<idb, pending, uuidCount>>
  /\ UNCHANGED reportVars

\* addFileToNode up to its await, called by NodeInspector.handleFileUpload
\* for the selected node.
AddFileToNode ==
  /\ uuidCount < MaxUuids
  /\ Cardinality(pending) < MaxPending
  /\ state.selectedNodeId \in UuidsOf(state.nodes)
  /\ \E filename \in FileNames :
       pending' = pending \cup
         {FileCall(state.selectedNodeId,
                   [id |-> generateUUID(uuidCount), nodeId |-> state.selectedNodeId,
                    filename |-> filename])}
  /\ uuidCount' = uuidCount + 1
  /\ UNCHANGED <<state, idb>>
  /\ UNCHANGED reportVars

\* addFileToNode from its await to its end.
AddFileToNodeResume ==
  /\ \E call \in pending :
       /\ call.kind = "addFile"
       /\ state' = addFileSetState(state, call)
       /\ pending' = pending \ {call}
  /\ UNCHANGED <<idb, uuidCount>>
  /\ UNCHANGED reportVars

\* saveToIndexedDB, called by Toolbar.handleSave (the Save button, Ctrl+S).
SaveToIndexedDB ==
  /\ idb' = [found |-> TRUE, nodes |-> state.nodes, edges |-> state.edges]
  /\ idb' # idb
  /\ UNCHANGED <<state, pending, uuidCount>>
  /\ UNCHANGED reportVars

\* loadFromIndexedDB up to its await.
LoadFromIndexedDB ==
  /\ Cardinality(pending) < MaxPending
  /\ Cardinality({call \in pending : call.kind = "load"}) < MaxLoads
  /\ LoadCall(idb) \notin pending
  /\ pending' = pending \cup {LoadCall(idb)}
  /\ UNCHANGED <<state, idb, uuidCount>>
  /\ UNCHANGED reportVars

\* loadFromIndexedDB from its await: if (document) setState(...)
LoadFromIndexedDBResume ==
  /\ \E call \in pending :
       /\ call.kind = "load"
       /\ state' = IF call.document.found THEN setDocument(state, call.document) ELSE state
       /\ pending' = pending \ {call}
  /\ UNCHANGED <<idb, uuidCount>>
  /\ UNCHANGED reportVars

\* importFromZIP: the setState after the ZIP has been read.
ImportFromZIP ==
  /\ \E document \in ImportDocuments :
       /\ state.nodes # document.nodes
       /\ state' = setDocument(state, document)
  /\ UNCHANGED <<idb, pending, uuidCount>>
  /\ UNCHANGED reportVars

\* A session of graph editing on the canvas, with imports.
NextGraph ==
  \/ AddNode \/ DeleteNode \/ AddEdge \/ DeleteEdge \/ SetSelectedNode
  \/ ImportFromZIP

\* A session of node creation and deletion, with saves, loads and imports.
NextIds ==
  \/ AddNode \/ DeleteNode
  \/ SaveToIndexedDB \/ LoadFromIndexedDB \/ LoadFromIndexedDBResume
  \/ ImportFromZIP

\* A session of file attachment, with the actions that change the nodes.
NextFiles ==
  \/ AddNode \/ DeleteNode \/ SetSelectedNode
  \/ AddFileToNode \/ AddFileToNodeResume
  \/ ImportFromZIP

\* A session of editing in which the user saves and loads by hand.
NextSave ==
  \/ AddNode \/ DeleteNode \/ AddEdge
  \/ SaveToIndexedDB \/ LoadFromIndexedDB \/ LoadFromIndexedDBResume

-----------------------------------------------------------------------------
(* Project files and documents *)

\* A JSON value found where an array is expected.
Arr(items) == [isArray |-> TRUE, truthy |-> TRUE, items |-> items]

NotArrayTruthy == [isArray |-> FALSE, truthy |-> TRUE, items |-> <<>>]

Absent == [isArray |-> FALSE, truthy |-> FALSE, items |-> <<>>]

\* A project.json: text that JSON.parse rejects ("malformed"), the JSON value
\* null ("null"), or an object with its nodes and edges members ("object").
File(name, kind, ns, es) == [name |-> name, kind |-> kind, nodes |-> ns, edges |-> es]

DocFile(name, ns, es) == File(name, "object", Arr(ns), Arr(es))

RawNode(id, action, date) ==
  [id |-> id, action |-> action, date |-> date, areas |-> Undefined,
   mainAreas |-> Undefined, mainArea |-> <<>>, mainarea |-> <<>>]

RawEdge(s, t) == [s |-> s, t |-> t, dashed |-> FALSE]

\* json.nodes / json.edges as computeMetricsForProject reads them.
DocOf(file) ==
  [nodes |-> IF file.nodes.isArray THEN file.nodes.items ELSE <<>>,
   edges |-> IF file.edges.isArray THEN file.edges.items ELSE <<>>]

-----------------------------------------------------------------------------
(* main: the batch loop and computePerProjectTimelines *)

\* JSON.parse throws on malformed text; reading a member of null throws.
ThrowsInLoop(pf) == pf.kind \in {"malformed", "null"}

\* In computePerProjectTimelines, (json.nodes || []).map throws as well when
\* nodes is a truthy value that is not an array.
ThrowsInTimelines(pf) ==
  pf.kind \in {"malformed", "null"} \/ (pf.nodes.truthy /\ ~pf.nodes.isArray)

\* for (const pf of projectFiles) { ... metrics.push(m) ... }: one iteration.
\* An exception is caught nowhere: it ends the run.
ProcessProject ==
  /\ pc = "loop"
  /\ pfIdx <= Len(projectFiles)
  /\ LET pf == projectFiles[pfIdx]
     IN  IF ThrowsInLoop(pf)
         THEN /\ pc' = "crashed"
              /\ UNCHANGED <<pfIdx, metrics, locals>>
         ELSE /\ metrics' = Append(metrics, computeMetricsForProject(pf.name, DocOf(pf), opts))
              /\ locals' = MetricsLocals(DocOf(pf))
              /\ pfIdx' = pfIdx + 1
              /\ pc' = "loop"
  /\ UNCHANGED <<opts, projectFiles, summary, args>>
  /\ UNCHANGED editorVars

\* m.__timeline = tl on the record of that name.
SetTimeline(ms, name, tl) ==
  [k \in 1..Len(ms) |->
     IF ms[k].project = name THEN ("__timeline" :> tl) @@ ms[k] ELSE ms[k]]

\* Math.max(4, Number(opts.maxWeeks) || 200), a number.
maxWeeksOf(o) == FracMax(Frac(4, 1), NumberOr(o.maxWeeks, DefaultMaxWeeks))

\* Array(n) throws a RangeError unless n is an integer (n is at least 4 here).
ArrayThrows(n) == ~IsInteger(n)

\* The length of Array(n) when it does not throw.
ArrayLength(n) == n[1] \div n[2]

\* The week cap of a run whose arrays can be built.
WeekCap(o) == ArrayLength(maxWeeksOf(o))

\* The loop of computePerProjectTimelines from file k on; ms is `metrics` as
\* mutated so far; maxWeeks is the number Math.max(4, ...).
RECURSIVE TimelinesFrom(_, _, _, _)
TimelinesFrom(files, ms, maxWeeks, k) ==
  IF k > Len(files) THEN [metrics |-> ms, threw |-> FALSE]
  ELSE IF ThrowsInTimelines(files[k]) THEN [metrics |-> ms, threw |-> TRUE]
  ELSE LET em == TimelineNodes(IF files[k].nodes.truthy THEN files[k].nodes.items
                               ELSE <<>>)
       IN  IF Len(em) = 0 THEN TimelinesFrom(files, ms, maxWeeks, k + 1)
           ELSE IF ArrayThrows(maxWeeks) THEN [metrics |-> ms, threw |-> TRUE]
           ELSE TimelinesFrom(files,
                              SetTimeline(ms, files[k].name,
                                          ProjectTimeline(em, ArrayLength(maxWeeks))),
                              maxWeeks, k + 1)

\* computePerProjectTimelines(projectFiles, metrics, opts), after the loop.
ComputeTimelines ==
  /\ pc = "loop"
  /\ pfIdx > Len(projectFiles)
  /\ LET r == TimelinesFrom(projectFiles, metrics, maxWeeksOf(opts), 1)
     IN  /\ metrics' = r.metrics
         /\ pc' = IF r.threw THEN "crashed" ELSE "summary"
  /\ UNCHANGED <<opts, projectFiles, pfIdx, locals, summary, args>>
  /\ UNCHANGED editorVars

\* The records that carry a timeline (tl && tl.length).
WithTimeline(ms) == SelectSeq(ms, LAMBDA m : "__timeline" \in DOMAIN m)

\* ex[i], mk[i] after the loop over the projects: the sum of tl[i][field].
RECURSIVE WeekSum(_, _, _)
WeekSum(used, i, field) ==
  IF Len(used) = 0 THEN 0
  ELSE (IF i <= Len(used[1]["__timeline"]) THEN used[1]["__timeline"][i][field] ELSE 0)
       + WeekSum(Tail(used), i, field)

\* while (last > 0 && weeks[last].total === 0) last -= 1; here weeks are
\* indexed from 1, so entry 1 is never tested.
RECURSIVE LastKept(_, _)
LastKept(weeks, last) ==
  IF last > 1 /\ weeks[last].total[1] = 0 THEN LastKept(weeks, last - 1) ELSE last

AverageWeeks(used, maxWeeks, projectsUsed) ==
  [i \in 1..maxWeeks |->
     [week  |-> i,
      ex    |-> Frac(WeekSum(used, i, "ex"), projectsUsed),
      mk    |-> Frac(WeekSum(used, i, "mk"), projectsUsed),
      total |-> Frac(WeekSum(used, i, "ex") + WeekSum(used, i, "mk"), projectsUsed)]]

TrimmedTimeline(weeks, projectsUsed) ==
  [projectsUsed |-> projectsUsed, weeks |-> SubSeq(weeks, 1, LastKept(weeks, Len(weeks)))]

AverageOf(used, maxWeeks, projectsUsed) ==
  TrimmedTimeline(AverageWeeks(used, maxWeeks, projectsUsed), projectsUsed)

buildAverageTimeline(metricsByProject, o) ==
  AverageOf(WithTimeline(metricsByProject), WeekCap(o),
            Max2(1, Len(WithTimeline(metricsByProject))))

numericKeys ==
  <<"interlacingIndex", "overlapIntensity", "cycleParticipation",
    "crossInterlacingShare", "conversionRate", "feedbackRatio",
    "leadtimeMedianDays", "crossMacroShare", "multiAreaShare", "temporalBackShare">>

\* m[key] as a JavaScript value: leadtimeMedianDays is a number or null, the
\* other metrics are numbers.
MetricValue(m, key) == IF key = "leadtimeMedianDays" THEN m[key] ELSE Num(m[key])

AggOf(vals) ==
  [mean |-> mean(vals), median |-> median(vals),
   min |-> minmax(vals).min, max |-> minmax(vals).max]

\* agg[key] for every key of numericKeys
Agg(ms) ==
  [key \in Range(numericKeys) |->
     AggOf(SelectSeq([k \in 1..Len(ms) |-> MetricValue(ms[k], key)], IsFinite))]

(* The DOCX report builder (scripts/build-process-report-docx.js) *)

\* The fields of a record of the HTML builder that the DOCX builder's
\* computeMetricsForProject does not return.
HtmlOnlyFields == {"sources", "sinks", "temporalBackShare"}

\* The record the DOCX builder holds for a project after its main loop: the
\* same computation without the fields above, the timeline set in the loop.
DocxRecord(m) == [f \in DOMAIN m \ HtmlOnlyFields |-> m[f]]

DocxMetrics(ms) == [k \in 1..Len(ms) |-> DocxRecord(ms[k])]

\* buildAverageTimeline of the DOCX builder: no timeline for a cohort in
\* which no project has one.
buildAverageTimelineDocx(metricsByProject, o) ==
  IF Len(WithTimeline(metricsByProject)) = 0
  THEN [projectsUsed |-> 0, weeks |-> <<>>]
  ELSE AverageOf(WithTimeline(metricsByProject), WeekCap(o),
                 Len(WithTimeline(metricsByProject)))

numericKeysDocx ==
  <<"interlacingIndex", "overlapIntensity", "cycleParticipation",
    "crossInterlacingShare", "conversionRate", "feedbackRatio",
    "leadtimeMedianDays", "crossMacroShare", "multiAreaShare">>

AggDocx(ms) ==
  [key \in Range(numericKeysDocx) |->
     AggOf(SelectSeq([k \in 1..Len(ms) |-> MetricValue(ms[k], key)], IsFinite))]

\* What the DOCX builder reports for the cohort of the run.
DocxSummary(ms, o) ==
  [projectCount |-> Len(ms),
   timeline |-> buildAverageTimelineDocx(DocxMetrics(ms), o),
   agg |-> AggDocx(DocxMetrics(ms))]

\* The folder names of a batch corpus, in the order of localeCompare.
ProjectNames == <<"01_a", "02_b", "03_c", "04_d", "05_e">>

\* a.project.localeCompare(b.project, "en") <= 0 on the names of a corpus
NameLe(a, b) ==
  a = b \/ \E i, j \in 1..Len(ProjectNames) :
             ProjectNames[i] = a /\ ProjectNames[j] = b /\ i < j

\* metrics.sort((a, b) => a.project.localeCompare(b.project, "en"))
RECURSIVE SortByProject(_)
SortByProject(ms) ==
  IF Len(ms) <= 1 THEN ms
  ELSE LET rest == SortByProject(Tail(ms))
           before == SelectSeq(rest, LAMBDA m : ~NameLe(ms[1].project, m.project))
           after  == SelectSeq(rest, LAMBDA m : NameLe(ms[1].project, m.project))
       IN  before \o <<ms[1]>> \o after

\* main from buildAverageTimeline to the sort of `metrics`.
\* Array(maxWeeks) in buildAverageTimeline throws for a cap that is no
\* integer, and nothing catches it.
Summarise ==
  /\ pc = "summary"
  /\ IF ArrayThrows(maxWeeksOf(opts))
     THEN /\ pc' = "crashed"
          /\ UNCHANGED <<metrics, summary>>
     ELSE /\ summary' = [projectCount |-> Len(metrics),
                         timeline |-> buildAverageTimeline(metrics, opts),
                         agg |-> Agg(metrics)]
          /\ metrics' = SortByProject(metrics)
          /\ pc' = "done"
  /\ UNCHANGED <<opts, projectFiles, pfIdx, locals, args>>
  /\ UNCHANGED editorVars

Next == ProcessProject \/ ComputeTimelines \/ Summarise

\* const opts = parseArgs(process.argv.slice(2))
ParseArgs ==
  /\ pc = "start"
  /\ opts' = parseArgs(args)
  /\ args' = <<>>
  /\ pc' = "loop"
  /\ UNCHANGED <<projectFiles, pfIdx, metrics, locals, summary>>
  /\ UNCHANGED editorVars

\* main from its first statement.
NextFromArgs == ParseArgs \/ ProcessProject \/ ComputeTimelines \/ Summarise

\* No options yet.
NoOpts == [hubThreshold |-> NaN, maxWeeks |-> NaN]

NoSummary == [projectCount |-> 0, timeline |-> [projectsUsed |-> 0, weeks |-> <<>>], agg |-> <<>>]

NoLocals == [nodes |-> <<>>, edges |-> <<>>, buckets |-> <<>>, scc |-> computeScc(<<>>, <<>>)]

\* The state of main() before the batch loop, for a given corpus.
InitWith(files) ==
  /\ pc = "loop"
  /\ opts = [hubThreshold |-> Frac(HubThreshold, 1), maxWeeks |-> Frac(MaxWeeks, 1)]
  /\ projectFiles = files
  /\ pfIdx = 1
  /\ metrics = <<>>
  /\ locals = NoLocals
  /\ summary = NoSummary
  /\ args = <<>>
  /\ EditorStart

-----------------------------------------------------------------------------
(* Corpora: the documents the run starts from *)

\* The sub-list of pool at the positions in I, in pool order.
RECURSIVE PickSeq(_, _, _)
PickSeq(pool, I, k) ==
  IF k > Len(pool) THEN <<>>
  ELSE (IF k \in I THEN <<pool[k]>> ELSE <<>>) \o PickSeq(pool, I, k + 1)

\* Edge lists: up to n distinct edges of pool, optionally followed by a second
\* copy of the first one.
EdgeLists(pool, n, withCopy) ==
  LET base == {PickSeq(pool, I, 1) :
                 I \in {J \in SUBSET (1..Len(pool)) : Cardinality(J) <= n}}
  IN  base \cup (IF withCopy THEN {Append(s, s[1]) : s \in base \ {<<>>}} ELSE {})

\* Graph corpus: any node list over GraphIds (duplicate and missing ids
\* included, an id not in the list is dangling), no action, no date.
GraphIds == {"", "N1", "N2", "N3"}

GraphEdgePool ==
  <<RawEdge("N1", "N2"), RawEdge("N2", "N1"), RawEdge("N2", "N3"),
    RawEdge("N3", "N1"), RawEdge("N3", "N2"), RawEdge("N1", "N3"),
    RawEdge("N1", "N1"), RawEdge("", "N1"), RawEdge("N2", "")>>

GraphFiles ==
  {DocFile("01_graph", [k \in 1..Len(ids) |-> RawNode(ids[k], <<>>, <<>>)], es) :
     ids \in SeqsUpTo(GraphIds, MaxNodes),
     es \in EdgeLists(GraphEdgePool, MaxEdges, TRUE)}

\* Temporal corpus: three nodes (ids distinct, or the first id twice), each
\* with an action and possibly a date.
DatePool == <<<<2024, 1, 1>>, <<2024, 1, 6>>, <<2024, 1, 8>>, <<2024, 1, 15>>, <<2023, 12, 31>>>>

RawDates == {<<>>} \cup {DatePool[k] : k \in 1..Min2(MaxDates, Len(DatePool))}

RawActions == {sExploring, Capitalized(sMaking), <<"D","e","s","i","g","n","i","n","g">>}

TemporalIdLists == {<<"N1", "N2", "N3">>, <<"N1", "N1", "N2">>}

TemporalEdgePool ==
  <<RawEdge("N1", "N2"), RawEdge("N2", "N3"), RawEdge("N1", "N3"), RawEdge("N2", "N1")>>

\* Scenario A of the specification.
ScenarioA ==
  DocFile("01_scenarioA",
          <<RawNode("N1", sExploring, <<2024, 1, 1>>),
            RawNode("N2", sMaking, <<2024, 1, 8>>),
            RawNode("N3", sExploring, <<2024, 1, 15>>)>>,
          <<RawEdge("N1", "N2"), RawEdge("N2", "N3")>>)

TemporalFiles ==
  {ScenarioA} \cup
  {DocFile("01_temporal",
           [k \in 1..Len(ids) |-> RawNode(ids[k], acts[k], dates[k])], es) :
     ids \in TemporalIdLists,
     acts \in [1..3 -> RawActions],
     dates \in [1..3 -> RawDates],
     es \in EdgeLists(TemporalEdgePool, MaxTEdges, FALSE)}

\* Area corpus: one node whose areas member is absent, a string or an array
\* of labels, with or without the legacy members.
LabelChars == {"a", "A", " ", "-"}

\* The empty label, one character, and "a" next to a blank or a hyphen.
ShortLabels ==
  {<<>>} \cup {<<c>> : c \in LabelChars}
  \cup {<<"a", " ">>, <<"a", "-">>}

LabelPool ==
  ShortLabels \cup
  {Capitalized(sSpeculative),
   sSpeculative \o <<" ">> \o sDesign,
   toLowerCase(sSpeculative) \o <<"-">> \o sDesign,
   <<" ">> \o Capitalized(sInteraction) \o <<" ", "\t">> \o sDesign,
   <<"h", ".", "c", ".", "i">>}

AreaValues ==
  {Undefined} \cup {StrVal(l) : l \in LabelPool}
  \cup {ArrVal(s) : s \in SeqsUpTo(LabelPool, MaxAreas)}

AreaFiles ==
  {DocFile("01_areas",
           <<[id |-> "N1", action |-> <<>>, date |-> <<>>, areas |-> a,
              mainAreas |-> ma, mainArea |-> one, mainarea |-> <<>>]>>,
           <<>>) :
     a \in AreaValues,
     ma \in {Undefined, ArrVal(<<Capitalized(sSpeculative)>>)},
     one \in {<<>>, sInteraction \o <<" ">> \o sDesign}}

\* Macro corpus: one node whose areas are labels that hit no bucket, one
\* bucket or two buckets.
MacroLabels ==
  {DesignName(sSpeculative), DesignName(sCommunication), DesignName(sInteraction),
   sComunic \o <<"a","z","i","o","n","e">>,
   sSpeculative \o <<" ">> \o sInteraction,
   Capitalized(sInter) \o sCommunication,
   <<"H", "C", "I">>}

MacroFiles ==
  {DocFile("01_macro",
           <<[id |-> "N1", action |-> <<>>, date |-> <<>>, areas |-> ArrVal(a),
              mainAreas |-> Undefined, mainArea |-> <<>>, mainarea |-> <<>>]>>,
           <<>>) :
     a \in SeqsUpTo(MacroLabels, MaxAreas + 1)}

\* Edge corpus: three dated nodes (exploring, making, exploring) and every
\* list of up to MaxEdges edges among first -> second, second -> first and
\* third -> second, in any order, with copies and with either value of
\* dashed; one id list has an id that contains the separator of the edge keys.
EdgeIdLists == {<<"N1", "N2", "N3">>, <<"N1", "N1->N2", "N2">>}

EdgeEnds == {<<1, 2>>, <<2, 1>>, <<3, 2>>}

EdgeNodes(ids) ==
  <<RawNode(ids[1], sExploring, <<2024, 1, 1>>),
    RawNode(ids[2], sMaking, <<2024, 1, 8>>),
    RawNode(ids[3], sExploring, <<2024, 1, 15>>)>>

EdgePool(ids) ==
  {[s |-> ids[p[1]], t |-> ids[p[2]], dashed |-> d] :
     p \in EdgeEnds, d \in BOOLEAN}

EdgeFiles ==
  UNION {{DocFile("01_edges", EdgeNodes(ids), es) : es \in SeqsUpTo(EdgePool(ids), MaxEdges)} :
         ids \in EdgeIdLists}

\* Batch corpus: up to MaxProjects project files, each well-formed or broken.

\* Scenario B of the specification: a mutual edge pair.
ScenarioBNodes == <<RawNode("A", <<>>, <<>>), RawNode("B", <<>>, <<>>)>>

ScenarioBEdges == <<RawEdge("A", "B"), RawEdge("B", "A")>>

BatchFilePool(name) ==
  {[ScenarioA EXCEPT !.name = name],
   DocFile(name, ScenarioBNodes, ScenarioBEdges),
   File(name, "malformed", Absent, Absent),
   File(name, "null", Absent, Absent),
   File(name, "object", NotArrayTruthy, Arr(ScenarioBEdges)),
   File(name, "object", Arr(ScenarioBNodes), NotArrayTruthy),
   File(name, "object", Absent, Absent)}

BatchCorpora ==
  UNION {{fs \in [1..n -> UNION {BatchFilePool(ProjectNames[k]) : k \in 1..n}] :
            \A k \in 1..n : fs[k].name = ProjectNames[k]} :
         n \in 1..Min2(MaxProjects, Len(ProjectNames))}

\* Cohort corpus: up to MaxProjects well-formed projects.  Scenario A has its
\* two modes in different weeks; Scenario B has neither actions nor dates; in
\* the third both modes share week 0; the fourth has a node 6 weeks after its
\* first one and no E->M edge; the fifth has no date at all.
CohortFilePool(name) ==
  {[ScenarioA EXCEPT !.name = name],
   DocFile(name, ScenarioBNodes, ScenarioBEdges),
   DocFile(name,
           <<RawNode("N1", sExploring, <<2024, 1, 1>>), RawNode("N2", sMaking, <<2024, 1, 6>>)>>,
           <<RawEdge("N1", "N2")>>),
   DocFile(name,
           <<RawNode("N1", sExploring, <<2024, 1, 1>>), RawNode("N2", sMaking, <<2024, 2, 12>>),
             RawNode("N3", sMaking, <<2024, 1, 8>>)>>,
           <<RawEdge("N2", "N1")>>),
   DocFile(name,
           <<RawNode("N1", sExploring, <<>>), RawNode("N2", sMaking, <<>>)>>,
           <<RawEdge("N1", "N2")>>)}

CohortCorpora ==
  UNION {{fs \in [1..n -> UNION {CohortFilePool(ProjectNames[k]) : k \in 1..n}] :
            \A k \in 1..n : fs[k].name = ProjectNames[k]} :
         n \in 1..Min2(MaxProjects, Len(ProjectNames))}

InitCohort == \E fs \in CohortCorpora : InitWith(fs)

SpecCohort == InitCohort /\ [][Next]_vars

InitGraph == \E f \in GraphFiles : InitWith(<<f>>)

InitTemporal == \E f \in TemporalFiles : InitWith(<<f>>)

SpecGraph == InitGraph /\ [][Next]_vars

SpecTemporal == InitTemporal /\ [][Next]_vars

InitMacro == \E f \in MacroFiles : InitWith(<<f>>)

SpecMacro == InitMacro /\ [][Next]_vars

\* Share corpus: an exploring, a making and a designing node, each with one
\* area label of one bucket, of two buckets or of none, and up to MaxTEdges
\* edges among them.
ShareLabels ==
  {DesignName(sSpeculative), DesignName(sCommunication),
   sSpeculative \o <<" ">> \o sInteraction, <<"H", "C", "I">>}

ShareEdgePool ==
  <<RawEdge("N1", "N2"), RawEdge("N2", "N1"), RawEdge("N3", "N2"), RawEdge("N1", "N3")>>

ShareNode(id, action, label) ==
  [id |-> id, action |-> action, date |-> <<>>, areas |-> ArrVal(<<label>>),
   mainAreas |-> Undefined, mainArea |-> <<>>, mainarea |-> <<>>]

ShareFiles ==
  {DocFile("01_shares",
           <<ShareNode("N1", sExploring, l[1]), ShareNode("N2", sMaking, l[2]),
             ShareNode("N3", <<"d","e","s","i","g","n","i","n","g">>, l[3])>>,
           es) :
     l \in [1..3 -> ShareLabels],
     es \in EdgeLists(ShareEdgePool, MaxTEdges, FALSE)}

InitShares == \E f \in ShareFiles : InitWith(<<f>>)

SpecShares == InitShares /\ [][Next]_vars

\* Duplicate-id corpus: three nodes (exploring, making, exploring) of which at
\* least two carry the same id, and up to MaxEdges edges between the ids N1
\* and N2, a self-loop and an edge to an unknown id among them, with copies.
DuplicateIdLists == {<<"N1", "N1", "N2">>, <<"N1", "N2", "N1">>, <<"N2", "N2", "N2">>}

DuplicateEdgePool ==
  <<RawEdge("N1", "N2"), RawEdge("N2", "N1"), RawEdge("N1", "N1"), RawEdge("N2", "N3")>>

DuplicateFiles ==
  {DocFile("01_duplicates", EdgeNodes(ids), es) :
     ids \in DuplicateIdLists, es \in EdgeLists(DuplicateEdgePool, MaxEdges, TRUE)}

InitDuplicates == \E f \in DuplicateFiles : InitWith(<<f>>)

SpecDuplicates == InitDuplicates /\ [][Next]_vars

\* An editor session from the empty store, before the first save.
InitStore == InitWith(<<>>)

SpecStore == InitStore /\ [][NextGraph]_vars

SpecIds == InitStore /\ [][NextIds]_vars

SpecFiles == InitStore /\ [][NextFiles]_vars

\* Every suspended call resumes: the awaited promises settle.
SpecSave == InitStore /\ [][NextSave]_vars /\ WF_vars(LoadFromIndexedDBResume)

\* Argument corpus: command lines with one or both numeric options, each
\* with a value that is missing, no number, out of range, an integer in range,
\* a fraction in range or Infinity, over a project with week-dated nodes and
\* in-degrees up to 3 and a project without dates.
ArgValues == {"abc", "0", "-3", "2", "5", "2.5", "4.5", "Infinity"}

ArgLists ==
  {<<>>, <<"--output", "--max-weeks", "5">>, <<"--title", "abc", "--hub-threshold", "2">>}
  \cup {<<f>> : f \in {"--hub-threshold", "--max-weeks"}}
  \cup {<<f, v>> : f \in {"--hub-threshold", "--max-weeks"}, v \in ArgValues}
  \cup {<<"--hub-threshold", v, "--max-weeks", w>> : v \in ArgValues, w \in ArgValues}

ArgFiles ==
  {DocFile("01_args", EdgeNodes(<<"N1", "N2", "N3">>),
           <<RawEdge("N1", "N2"), RawEdge("N3", "N2"), RawEdge("N1", "N2")>>),
   DocFile("01_args", ScenarioBNodes, ScenarioBEdges)}

InitArgs ==
  \E a \in ArgLists, f \in ArgFiles :
    /\ pc = "start"
    /\ args = a
    /\ opts = NoOpts
    /\ projectFiles = <<f>>
    /\ pfIdx = 1
    /\ metrics = <<>>
    /\ locals = NoLocals
    /\ summary = NoSummary
    /\ EditorStart

SpecArgs == InitArgs /\ [][NextFromArgs]_vars

\* The values of --hub-threshold the runs of the hub corpus are started with.
HubThresholds == {1, 2, HubThreshold}

\* The edge corpus under each of these thresholds.
InitHubs ==
  \E fs \in {<<f>> : f \in EdgeFiles}, h \in HubThresholds :
    /\ pc = "loop"
    /\ opts = [hubThreshold |-> Frac(h, 1), maxWeeks |-> Frac(MaxWeeks, 1)]
    /\ projectFiles = fs
    /\ pfIdx = 1
    /\ metrics = <<>>
    /\ locals = NoLocals
    /\ summary = NoSummary
    /\ args = <<>>
    /\ EditorStart

SpecHubs == InitHubs /\ [][Next]_vars

InitEdges == \E f \in EdgeFiles : InitWith(<<f>>)

SpecEdges == InitEdges /\ [][Next]_vars

InitAreas == \E f \in AreaFiles : InitWith(<<f>>)

SpecAreas == InitAreas /\ [][Next]_vars

Init == \E fs \in BatchCorpora : InitWith(fs)

Spec == Init /\ [][Next]_vars

-----------------------------------------------------------------------------
(* Claims about the structural analysis (SpecGraph) *)

\* The record returned by the last computeMetricsForProject call.
LastMetrics == metrics[Len(metrics)]

Computed == Len(metrics) > 0

\* The nodes reachable from the set S along the pairs of E.
RECURSIVE ReachSet(_, _)
ReachSet(S, E) ==
  LET step == S \cup {p[2] : p \in {q \in E : q[1] \in S}}
  IN  IF step = S THEN S ELSE ReachSet(step, E)

\* The maximal sets of mutually reachable ids of the graph handed to
\* computeScc: the ids of `nodes`, the pairs of `edges`.
SccClasses ==
  LET ids == {locals.nodes[k].id : k \in 1..Len(locals.nodes)}
      E   == {<<locals.edges[k].s, locals.edges[k].t>> : k \in 1..Len(locals.edges)}
  IN  {{b \in ids : b \in ReachSet({a}, E) /\ a \in ReachSet({b}, E)} : a \in ids}

CyclicClasses == {C \in SccClasses : Cardinality(C) >= 2}

MaxCard(Cs) ==
  IF Cs = {} THEN 0
  ELSE Cardinality(CHOOSE C \in Cs : \A D \in Cs : Cardinality(D) <= Cardinality(C))

\* C1: the components computeScc emits are exactly the maximal sets of
\* mutually reachable ids, each emitted once and without a repeated member;
\* sccCount is the number of those with at least two members, largestScc the
\* size of the largest of them (0 if none) and cyclicNodes their union.
C1_SccExact ==
  LET comps == locals.scc.components
  IN  /\ {Range(comps[k]) : k \in 1..Len(comps)} = SccClasses
      /\ Len(comps) = Cardinality(SccClasses)
      /\ \A k \in 1..Len(comps) : Cardinality(Range(comps[k])) = Len(comps[k])
      /\ locals.scc.sccCount = Cardinality(CyclicClasses)
      /\ locals.scc.largestScc = MaxCard(CyclicClasses)
      /\ locals.scc.cyclicNodes = UNION CyclicClasses
      /\ Computed => /\ LastMetrics.sccCount = Cardinality(CyclicClasses)
                     /\ LastMetrics.largestScc = MaxCard(CyclicClasses)

\* A three-node cycle next to nothing else, found as one component.
C1_Witness ==
  /\ Computed
  /\ locals.scc.largestScc = 3
  /\ Len(locals.edges) = 3

\* C2: cycleParticipation is 100 * |union of the cyclic SCCs| / nodeCount
\* (0 when there is no node), every SCC counted as cyclic has at least two
\* members, and the value lies in [0, 100].
C2_CycleParticipation ==
  Computed =>
    /\ \A k \in 1..Len(locals.scc.cyclic) : Len(locals.scc.cyclic[k]) >= 2
    /\ IF LastMetrics.nodes = 0
       THEN FracEq(LastMetrics.cycleParticipation, Zero)
       ELSE FracEq(LastMetrics.cycleParticipation,
                   Pct(Cardinality(UNION CyclicClasses), LastMetrics.nodes))
    /\ FracLe(Zero, LastMetrics.cycleParticipation)
    /\ FracLe(LastMetrics.cycleParticipation, Hundred)

\* Some but not all nodes lie on a cycle.
C2_Witness ==
  /\ Computed
  /\ LastMetrics.sccCount = 1
  /\ ~FracLe(LastMetrics.cycleParticipation, Zero)
  /\ ~FracLe(Hundred, LastMetrics.cycleParticipation)

\* The document of the project processed last.
LastFile == projectFiles[pfIdx - 1]

\* An edge of the document is valid: both endpoints are non-empty ids of
\* nodes of the document and differ.
SpecValidEdge(e, rawNodes) ==
  /\ e.s # "" /\ e.t # "" /\ e.s # e.t
  /\ \E k \in 1..Len(rawNodes) : rawNodes[k].id = e.s
  /\ \E k \in 1..Len(rawNodes) : rawNodes[k].id = e.t

\* C4: the edges the engine uses are the valid edges of the document, in
\* document order, and nothing else: ProjectMetrics.edges is their number,
\* density is computed from it, sources and sinks count the nodes without a
\* valid incoming / outgoing edge, reciprocal pairs and cyclic nodes are made
\* of valid edges, and mode-transition edges are among them.
C4_OnlyValidEdges ==
  Computed =>
    LET rawN  == DocOf(LastFile).nodes
        rawE  == DocOf(LastFile).edges
        valid == SelectSeq(rawE, LAMBDA e : SpecValidEdge(e, rawN))
        pairs == {<<valid[k].s, valid[k].t>> : k \in 1..Len(valid)}
        n     == Len(rawN)
    IN  /\ locals.edges = valid
        /\ LastMetrics.edges = Len(valid)
        /\ FracEq(LastMetrics.density,
                   IF n > 1 THEN Pct(Len(valid), n * (n - 1)) ELSE Zero)
        /\ LastMetrics.sources =
             Cardinality({k \in 1..n : \A p \in pairs : p[2] # rawN[k].id})
        /\ LastMetrics.sinks =
             Cardinality({k \in 1..n : \A p \in pairs : p[1] # rawN[k].id})
        /\ LastMetrics.reciprocityPairs =
             Cardinality({P \in SUBSET {rawN[k].id : k \in 1..n} :
                            \E a, b \in P : /\ P = {a, b} /\ a # b
                                            /\ <<a, b>> \in pairs /\ <<b, a>> \in pairs})
        /\ \A a \in locals.scc.cyclicNodes : \E p \in pairs : p[1] = a
        /\ LastMetrics.interlacingEdges <= Len(valid)

\* A document with a valid edge, a self-loop on an existing node and an edge
\* with an empty endpoint.
C4_Witness ==
  /\ Computed
  /\ LastMetrics.edges = 1
  /\ \E k \in 1..Len(DocOf(LastFile).edges) :
       LET e == DocOf(LastFile).edges[k]
       IN  e.s = e.t /\ \E j \in 1..Len(locals.nodes) : locals.nodes[j].id = e.s
  /\ \E k \in 1..Len(DocOf(LastFile).edges) : DocOf(LastFile).edges[k].s = ""

\* C9: the reported density is 0 when there is at most one node, and lies in
\* [0, 100] whenever the valid edge count is at most n * (n - 1).
C9_DensityBounds ==
  Computed =>
    LET n == LastMetrics.nodes
    IN  /\ n <= 1 => FracEq(LastMetrics.density, Zero)
        /\ LastMetrics.edges <= n * (n - 1) =>
             FracLe(Zero, LastMetrics.density) /\ FracLe(LastMetrics.density, Hundred)

\* Several nodes, some valid edges, a density strictly between 0 and 100.
C9_Witness ==
  /\ Computed
  /\ LastMetrics.nodes >= 2
  /\ LastMetrics.edges >= 1
  /\ ~FracLe(Hundred, LastMetrics.density)

-----------------------------------------------------------------------------
(* Claims about the temporal analysis (SpecTemporal) *)

ScenarioADone == Computed /\ LastFile = ScenarioA

\* C5 (as amended): for the Scenario A document computeMetricsForProject
\* returns eToMEdges = 1, mToEEdges = 1, feedbackRatio = 100,
\* leadtimeMedianDays = 7 and conversionRate = 50: one of the two exploring
\* nodes (N1, not N3) has an outgoing E->M edge.
C5_ScenarioA ==
  ScenarioADone =>
    /\ LastMetrics.eToMEdges = 1
    /\ LastMetrics.mToEEdges = 1
    /\ FracEq(LastMetrics.feedbackRatio, Hundred)
    /\ FracEq(LastMetrics.conversionRate, Frac(50, 1))
    /\ LastMetrics.leadtimeMedianDays.ok
    /\ FracEq(LastMetrics.leadtimeMedianDays.v, Frac(7, 1))

\* C5 as stated: the same with conversionRate = 100.
C5_ScenarioA_AsStated ==
  ScenarioADone =>
    /\ LastMetrics.eToMEdges = 1
    /\ LastMetrics.mToEEdges = 1
    /\ FracEq(LastMetrics.feedbackRatio, Hundred)
    /\ FracEq(LastMetrics.conversionRate, Hundred)
    /\ LastMetrics.leadtimeMedianDays.ok
    /\ FracEq(LastMetrics.leadtimeMedianDays.v, Frac(7, 1))

\* Scenario A has been processed: two exploring nodes, one making node.
C5_Witness ==
  /\ ScenarioADone
  /\ LastMetrics.exploring = 2
  /\ LastMetrics.making = 1
  /\ LastMetrics.edges = 2

\* The node an id denotes for the engine: the last node carrying it.
Denoted(id) ==
  locals.nodes[CHOOSE k \in 1..Len(locals.nodes) :
                 /\ locals.nodes[k].id = id
                 /\ \A j \in 1..Len(locals.nodes) : locals.nodes[j].id = id => j <= k]

\* The ids of exploring nodes that are the source of a valid E->M edge.
ConvertingSources ==
  {id \in {locals.nodes[k].id : k \in 1..Len(locals.nodes)} :
     /\ Denoted(id).action = "exploring"
     /\ \E k \in 1..Len(locals.edges) :
          locals.edges[k].s = id /\ Denoted(locals.edges[k].t).action = "making"}

\* C6: conversionRate is 100 * (distinct exploring nodes, told apart by id,
\* that are the source of at least one valid E->M edge) / (exploring nodes);
\* it is 0 without exploring nodes and never exceeds 100, with duplicated
\* ids and with several E->M edges leaving one node as well.
C6_ConversionRate ==
  Computed =>
    LET nE == Cardinality({k \in 1..Len(locals.nodes) :
                             locals.nodes[k].action = "exploring"})
    IN  /\ FracEq(LastMetrics.conversionRate,
                  IF nE = 0 THEN Zero ELSE Pct(Cardinality(ConvertingSources), nE))
        /\ FracLe(LastMetrics.conversionRate, Hundred)
        /\ FracLe(Zero, LastMetrics.conversionRate)

\* Two E->M edges leave the only exploring node.
C6_Witness ==
  /\ Computed
  /\ LastMetrics.eToMEdges = 2
  /\ LastMetrics.exploring = 1
  /\ Cardinality(ConvertingSources) = 1

\* Two exploring nodes share the id an E->M edge leaves from.
C6_WitnessDuplicateIds ==
  /\ Computed
  /\ LastMetrics.eToMEdges = 1
  /\ LastMetrics.exploring = 2
  /\ \E j, k \in 1..Len(locals.nodes) :
       /\ j # k /\ locals.nodes[j].id = locals.nodes[k].id
       /\ locals.nodes[j].action = "exploring" /\ locals.nodes[k].action = "exploring"

\* The nodes with an exploring/making action and a date.
DatedModeNodes ==
  SelectSeq(locals.nodes, LAMBDA n : n.action \in {"exploring", "making"} /\ n.date.ok)

\* The week of a node relative to the earliest of DatedModeNodes.
ModeWeek(n) ==
  LET em  == DatedModeNodes
      mn  == CHOOSE a \in 1..Len(em) : \A b \in 1..Len(em) : em[a].date.t <= em[b].date.t
      d   == n.date.t - em[mn].date.t
  IN  IF d < 0 THEN 0 ELSE d \div 7

\* C7: the buckets behind interlacingIndex/overlapIntensity are keyed by
\* week = max(0, floor((date - minDate) / 7 days)), minDate being the
\* earliest date among the nodes with an exploring/making action and a date;
\* so bucket 0 is non-empty when such a node exists, and the buckets agree
\* with the project's weekly timeline used by the cohort aggregator.
C7_WeekBuckets ==
  (Computed /\ Len(DatedModeNodes) > 0) =>
    LET em == DatedModeNodes
        count(w, act) == Cardinality({k \in 1..Len(em) :
                                        ModeWeek(em[k]) = w /\ em[k].action = act})
    IN  /\ DOMAIN locals.buckets = {ModeWeek(em[k]) : k \in 1..Len(em)}
        /\ 0 \in DOMAIN locals.buckets
        /\ \A w \in DOMAIN locals.buckets :
             /\ locals.buckets[w].exploring = count(w, "exploring")
             /\ locals.buckets[w].making = count(w, "making")
        /\ pc = "summary" =>
             LET tl == LastMetrics["__timeline"]
             IN  \A w \in DOMAIN locals.buckets :
                   w + 1 \in DOMAIN tl =>
                     /\ tl[w + 1].ex = locals.buckets[w].exploring
                     /\ tl[w + 1].mk = locals.buckets[w].making

\* A document with a dated exploring/making node whose buckets, as the
\* metrics engine keys them, have no week 0: an earlier dated node of another
\* action has set minDate.
C7_Witness ==
  /\ Computed
  /\ Len(DatedModeNodes) > 0
  /\ DOMAIN locals.buckets # {}
  /\ 0 \notin DOMAIN locals.buckets

\* C8: interlacingIndex and overlapIntensity lie in [0, 100], and both are 0
\* when no node has an exploring/making action and a date (also when nodes
\* of other actions are dated).
C8_InterlacingBounds ==
  Computed =>
    /\ FracLe(Zero, LastMetrics.interlacingIndex)
    /\ FracLe(LastMetrics.interlacingIndex, Hundred)
    /\ FracLe(Zero, LastMetrics.overlapIntensity)
    /\ FracLe(LastMetrics.overlapIntensity, Hundred)
    /\ Len(DatedModeNodes) = 0 =>
         /\ FracEq(LastMetrics.interlacingIndex, Zero)
         /\ FracEq(LastMetrics.overlapIntensity, Zero)

\* Only nodes of another action are dated, next to undated exploring and
\* making nodes.
C8_Witness ==
  /\ Computed
  /\ Len(DatedModeNodes) = 0
  /\ LastMetrics.minDate.ok
  /\ LastMetrics.exploring >= 1
  /\ LastMetrics.making >= 1

\* A week that holds both modes unevenly.
C8_WitnessOverlap ==
  /\ Computed
  /\ LastMetrics.overlapBuckets = 1
  /\ ~FracLe(Hundred, LastMetrics.overlapIntensity)

-----------------------------------------------------------------------------
(* Claims about area normalisation (SpecAreas) *)

\* C10: normalizeAreaList applied to its own output, given as the areas
\* array or as the legacy list, returns that output unchanged: same entries,
\* same order, same casing.
C10_NormalizeIdempotent ==
  \A k \in 1..Len(locals.nodes) :
    LET out == locals.nodes[k].areas
    IN  /\ normalizeAreaList(ArrVal(out), Undefined) = out
        /\ normalizeAreaList(ArrVal(out), ArrVal(<<>>)) = out
        /\ normalizeAreaList(Undefined, ArrVal(out)) = out

\* A node whose labels were renamed, merged and reordered by the
\* normalisation: three entries come out of an array and the legacy fields,
\* among them a canonical name that no input spelled that way.
C10_Witness ==
  /\ Computed
  /\ Len(locals.nodes) = 1
  /\ Len(locals.nodes[1].areas) = 3
  /\ LastFile.nodes.items[1].areas.kind = "array"
  /\ DesignName(sInteraction) \in Range(locals.nodes[1].areas)
  /\ DesignName(sSpeculative) = locals.nodes[1].areas[1]
  /\ DesignName(sSpeculative) \notin Range(LastFile.nodes.items[1].areas.items)

\* The words of a label: the maximal runs of letters and digits of its
\* lower-cased text; cur is the word being read.
RECURSIVE WordsOf(_, _)
WordsOf(s, cur) ==
  IF Len(s) = 0 THEN (IF cur = <<>> THEN <<>> ELSE <<cur>>)
  ELSE IF ToLowerChar(s[1]) \in Range(LowerChars) \cup DigitChars
       THEN WordsOf(Tail(s), Append(cur, ToLowerChar(s[1])))
       ELSE (IF cur = <<>> THEN <<>> ELSE <<cur>>) \o WordsOf(Tail(s), <<>>)

\* The normalized key of a label, as the list of words of its canonical name.
SpecAreaKey(label) == WordsOf(canonicalAreaName(label), <<>>)

\* The labels a raw node hands to the normalisation: primary areas first,
\* then the legacy fields.
AreaInputs(n) ==
  (IF n.areas.kind = "array" THEN n.areas.items
   ELSE IF n.areas.kind = "string" THEN <<n.areas.s>> ELSE <<>>)
  \o LegacyAreas(n).items

\* The positions of `labels` that are first occurrences of a non-empty key.
FirstOccurrences(labels) ==
  {i \in 1..Len(labels) :
     /\ SpecAreaKey(labels[i]) # <<>>
     /\ \A j \in 1..(i - 1) : SpecAreaKey(labels[j]) # SpecAreaKey(labels[i])}

\* Scenario D of the specification.
ScenarioDAreas == ArrVal(<<Capitalized(sSpeculative), sSpeculative \o <<" ">> \o sDesign>>)

\* C11: the normalized list has no two entries with the same key; its
\* entries are the canonical names of the first occurrences of the non-empty
\* keys, in input order with the primary areas before the legacy fields; and
\* ["Speculative", "speculative design"] gives ["Speculative Design"].
C11_NormalizeDedupe ==
  Computed =>
    LET n     == LastFile.nodes.items[1]
        in    == AreaInputs(n)
        out   == locals.nodes[1].areas
        kept  == FirstOccurrences(in)
        pos(j) == CHOOSE i \in kept : Cardinality({k \in kept : k < i}) = j - 1
    IN  /\ Len(out) = Cardinality(kept)
        /\ \A j \in 1..Len(out) : out[j] = canonicalAreaName(in[pos(j)])
        /\ \A a, b \in 1..Len(out) :
             a # b => SpecAreaKey(out[a]) # SpecAreaKey(out[b])
        /\ \A a \in 1..Len(out) : SpecAreaKey(out[a]) # <<>>
        /\ (n.areas = ScenarioDAreas /\ n.mainAreas.kind = "undefined" /\ n.mainArea = <<>>)
             => out = <<DesignName(sSpeculative)>>

\* Scenario D has been normalized.
C11_Witness ==
  /\ Computed
  /\ LastFile.nodes.items[1].areas = ScenarioDAreas
  /\ LastFile.nodes.items[1].mainAreas.kind = "undefined"
  /\ LastFile.nodes.items[1].mainArea = <<>>
  /\ locals.nodes[1].areas = <<DesignName(sSpeculative)>>

\* A later duplicate and a label with an empty key were dropped, and a legacy
\* label came after the primary ones.
C11_WitnessDropped ==
  /\ Computed
  /\ Len(AreaInputs(LastFile.nodes.items[1])) = 4
  /\ Len(locals.nodes[1].areas) = 2
  /\ LastFile.nodes.items[1].areas.kind = "array"
  /\ Len(LastFile.nodes.items[1].areas.items) = 2
  /\ \E i \in 1..2 : LastFile.nodes.items[1].areas.items[i] = <<"-">>
  /\ locals.nodes[1].areas[2] = DesignName(sInteraction)

-----------------------------------------------------------------------------
(* Claims about the macro bucket (SpecMacro) *)

\* The number of area strings of the first node that contain, lower-cased,
\* one of the patterns.
MacroScore(patterns) ==
  LET areas == locals.nodes[1].areas
  IN  Cardinality({i \in 1..Len(areas) :
                     \E p \in patterns :
                       \E k \in 1..Len(areas[i]) :
                         /\ k + Len(p) - 1 <= Len(areas[i])
                         /\ \A d \in 1..Len(p) : ToLowerChar(areas[i][k + d - 1]) = p[d]})

MacroScores ==
  [speculative   |-> MacroScore({sSpecul}),
   communication |-> MacroScore({sComunic, sCommunicat}),
   interaction   |-> MacroScore({sInter})]

\* C12: macroFromAreas returns the bucket whose score is strictly the
\* highest, "mixed" exactly when two or more buckets tie at the top non-zero
\* score, and "unknown" exactly when the three scores are zero.
C12_MacroBucket ==
  Computed =>
    LET sc    == MacroScores
        macro == locals.nodes[1].macro
        B     == DOMAIN sc
        tops  == {b \in B : \A c \in B : sc[c] <= sc[b]}
    IN  /\ macro \in B \cup {"mixed", "unknown"}
        /\ macro = "unknown" <=> \A b \in B : sc[b] = 0
        /\ macro = "mixed" <=> (Cardinality(tops) >= 2 /\ \E b \in B : sc[b] > 0)
        /\ \A b \in B : macro = b <=> \A c \in B \ {b} : sc[c] < sc[b]

\* One bucket wins with score 2 against another bucket with score 1.
C12_Witness ==
  /\ Computed
  /\ locals.nodes[1].macro = "communication"
  /\ MacroScores.communication = 2
  /\ MacroScores.interaction = 1

\* Two buckets tie at score 2 and the third bucket scores less.
C12_WitnessTie ==
  /\ Computed
  /\ locals.nodes[1].macro = "mixed"
  /\ MacroScores.speculative = 2
  /\ MacroScores.interaction = 2
  /\ MacroScores.communication < 2

-----------------------------------------------------------------------------
(* Claims about reciprocity (SpecEdges) *)

\* The unordered pairs of distinct node ids joined by valid edges in both
\* directions.
MutualPairs ==
  LET ids == {locals.nodes[k].id : k \in 1..Len(locals.nodes)}
      has(a, b) == \E k \in 1..Len(locals.edges) :
                     locals.edges[k].s = a /\ locals.edges[k].t = b
  IN  {P \in SUBSET ids : /\ Cardinality(P) = 2
                           /\ \A a, b \in P : a # b => has(a, b)}

\* C13: reciprocityPairs is the number of unordered pairs {a,b}, a # b, with
\* valid edges a->b and b->a, each pair counted once whatever the order, the
\* number of copies and the dashed flags of the edges.
C13_ReciprocityPairs ==
  Computed => LastMetrics.reciprocityPairs = Cardinality(MutualPairs)

\* C13, for documents none of whose ids contains the separator of the keys.
C13_ReciprocityPlainIds ==
  (Computed /\ \A k \in 1..Len(locals.nodes) : Arrow \notin Range(IdText[locals.nodes[k].id]))
    => LastMetrics.reciprocityPairs = Cardinality(MutualPairs)

\* Two nodes are joined in both directions, one of them has an id that
\* contains the separator, and no pair is counted.
C13_Witness ==
  /\ Computed
  /\ Cardinality(MutualPairs) = 1
  /\ LastMetrics.reciprocityPairs = 0

\* A mutual pair given target-first, with a copy and mixed dashed flags, is
\* counted once.
C13_WitnessPlain ==
  /\ Computed
  /\ Len(locals.edges) = 3
  /\ locals.edges[1].s = "N2" /\ locals.edges[1].t = "N1" /\ locals.edges[1].dashed
  /\ locals.edges[2].s = "N1" /\ locals.edges[2].t = "N2" /\ ~locals.edges[2].dashed
  /\ locals.edges[3].s = "N2" /\ locals.edges[3].t = "N1" /\ ~locals.edges[3].dashed
  /\ LastMetrics.reciprocityPairs = 1

-----------------------------------------------------------------------------
(* Claims about the dashed flag (SpecEdges) *)

\* The document with every edge drawn solid.
Undashed(doc) ==
  [doc EXCEPT !.edges = [i \in 1..Len(doc.edges) |-> [doc.edges[i] EXCEPT !.dashed = FALSE]]]

\* C18: the record of a document is the record of the same document with
\* the dashed flag of every edge cleared, so documents that differ only in
\* dashed flags have the same record.
C18_DashedIgnored ==
  (pc = "loop" /\ Computed)
    => LastMetrics = computeMetricsForProject(LastFile.name, Undashed(DocOf(LastFile)), opts)

\* A document with a mutual pair of which one edge is dashed and the other
\* solid, and a third, dashed edge from exploring to making.
C18_Witness ==
  /\ pc = "loop" /\ Computed
  /\ Len(locals.edges) = 3
  /\ \E j, k \in 1..3 : /\ locals.edges[j].dashed /\ ~locals.edges[k].dashed
                        /\ locals.edges[j].s = locals.edges[k].t
                        /\ locals.edges[j].t = locals.edges[k].s
  /\ LastMetrics.reciprocityPairs = 1
  /\ LastMetrics.eToMEdges = 2
  /\ DocOf(LastFile) # Undashed(DocOf(LastFile))

-----------------------------------------------------------------------------
(* Claims about the lead time (SpecTemporal) *)

\* The valid edges from an exploring node to a making node, both dated, the
\* making node not before the exploring one.
LeadEdges ==
  SelectSeq(locals.edges,
            LAMBDA e : /\ Denoted(e.s).action = "exploring"
                       /\ Denoted(e.t).action = "making"
                       /\ Denoted(e.s).date.ok /\ Denoted(e.t).date.ok
                       /\ Denoted(e.t).date.t >= Denoted(e.s).date.t)

\* Their differences target.date - source.date, in days.
LeadDays == [i \in 1..Len(LeadEdges) |->
               Denoted(LeadEdges[i].t).date.t - Denoted(LeadEdges[i].s).date.t]

\* The k-th smallest of the values of d.
KthSmallest(d, k) ==
  CHOOSE x \in Range(d) : /\ Cardinality({i \in 1..Len(d) : d[i] < x}) < k
                          /\ Cardinality({i \in 1..Len(d) : d[i] <= x}) >= k

\* The median of a non-empty list of integers, as a fraction.
MedianOfDays(d) ==
  IF Len(d) % 2 = 1 THEN Frac(KthSmallest(d, (Len(d) + 1) \div 2), 1)
  ELSE Frac(KthSmallest(d, Len(d) \div 2) + KthSmallest(d, Len(d) \div 2 + 1), 2)

\* C19: leadtimeMedianDays is the median of the day differences of the
\* E->M edges with two dated endpoints and a non-negative difference; it is
\* never negative, and it is null when no edge qualifies.
C19_LeadtimeMedian ==
  (pc = "loop" /\ Computed) =>
    LET lt == LastMetrics.leadtimeMedianDays
    IN  IF Len(LeadDays) = 0 THEN lt = Null
        ELSE /\ lt.ok
             /\ FracEq(lt.v, MedianOfDays(LeadDays))
             /\ FracLe(Zero, lt.v)

\* Two qualifying edges of 0 and 5 days: the median is 2.5.
C19_Witness ==
  /\ pc = "loop" /\ Computed
  /\ Len(LeadDays) = 2
  /\ LastMetrics.leadtimeMedianDays.ok
  /\ FracEq(LastMetrics.leadtimeMedianDays.v, Frac(5, 2))

\* An E->M edge whose making node is dated before its exploring node, next
\* to a qualifying one: only the latter counts.
C19_WitnessNegative ==
  /\ pc = "loop" /\ Computed
  /\ Len(LeadDays) = 1
  /\ LastMetrics.eToMEdges = 2
  /\ \E k \in 1..Len(locals.edges) :
       /\ Denoted(locals.edges[k].s).action = "exploring"
       /\ Denoted(locals.edges[k].t).action = "making"
       /\ Denoted(locals.edges[k].s).date.ok /\ Denoted(locals.edges[k].t).date.ok
       /\ Denoted(locals.edges[k].t).date.t < Denoted(locals.edges[k].s).date.t
  /\ LastMetrics.leadtimeMedianDays.ok

\* E->M edges exist, none with two dated endpoints in order: the result is
\* null.
C19_WitnessNull ==
  /\ pc = "loop" /\ Computed
  /\ LastMetrics.eToMEdges = 2
  /\ Len(LeadDays) = 0
  /\ LastMetrics.leadtimeMedianDays = Null
  /\ \E k \in 1..Len(locals.edges) : ~Denoted(locals.edges[k].t).date.ok

-----------------------------------------------------------------------------
(* Claims about hubs, sources and sinks (SpecHubs) *)

\* The valid edges of the document processed last.
HubEdges ==
  SelectSeq(DocOf(LastFile).edges, LAMBDA e : SpecValidEdge(e, DocOf(LastFile).nodes))

\* The number of valid edges into, and out of, the node id.
InDegree(id) == Cardinality({k \in 1..Len(HubEdges) : HubEdges[k].t = id})

OutDegree(id) == Cardinality({k \in 1..Len(HubEdges) : HubEdges[k].s = id})

\* The ids of the nodes of the document processed last (distinct in this
\* corpus).
HubIds == {DocOf(LastFile).nodes[k].id : k \in 1..Len(DocOf(LastFile).nodes)}

\* C20: convergent and divergent count the nodes whose in- and out-degree
\* reach the threshold, sources and sinks those whose in- and out-degree is
\* 0, every valid edge counting once; with a threshold of at least 1 no node
\* is both source and convergent, nor both sink and divergent.
C20_HubCounts ==
  (pc = "loop" /\ Computed) =>
    LET h == ArrayLength(opts.hubThreshold)
        convergent == {id \in HubIds : InDegree(id) >= h}
        divergent  == {id \in HubIds : OutDegree(id) >= h}
        sources    == {id \in HubIds : InDegree(id) = 0}
        sinks      == {id \in HubIds : OutDegree(id) = 0}
    IN  /\ LastMetrics.convergent = Cardinality(convergent)
        /\ LastMetrics.divergent = Cardinality(divergent)
        /\ LastMetrics.sources = Cardinality(sources)
        /\ LastMetrics.sinks = Cardinality(sinks)
        /\ h >= 1 => /\ sources \cap convergent = {}
                     /\ sinks \cap divergent = {}
                     /\ LastMetrics.sources + LastMetrics.convergent <= LastMetrics.nodes
                     /\ LastMetrics.sinks + LastMetrics.divergent <= LastMetrics.nodes

\* Threshold 2: a node entered by two copies of the same edge is convergent,
\* a node left by two edges is divergent, and the third node is a source.
C20_Witness ==
  /\ pc = "loop" /\ Computed
  /\ opts.hubThreshold = Frac(2, 1)
  /\ Len(HubEdges) = 3
  /\ HubEdges[1].s = HubEdges[2].s /\ HubEdges[1].t = HubEdges[2].t
  /\ LastMetrics.convergent = 1
  /\ LastMetrics.sources = 2
  /\ LastMetrics.sinks = 1

\* Threshold 1: every node with an incoming edge is convergent.
C20_WitnessThresholdOne ==
  /\ pc = "loop" /\ Computed
  /\ opts.hubThreshold = Frac(1, 1)
  /\ LastMetrics.convergent = 2 /\ LastMetrics.sources = 1
  /\ LastMetrics.divergent = 3 /\ LastMetrics.sinks = 0

-----------------------------------------------------------------------------
(* Claims about the macro shares (SpecShares) *)

MacroBuckets == {"speculative", "communication", "interaction"}

\* The positions of the valid edges whose two endpoints have a bucket.
ClassifiedEdges ==
  {k \in 1..Len(locals.edges) :
     /\ Denoted(locals.edges[k].s).macro \in MacroBuckets
     /\ Denoted(locals.edges[k].t).macro \in MacroBuckets}

\* The positions of the valid edges between an exploring and a making node.
ModeEdges ==
  {k \in 1..Len(locals.edges) :
     {Denoted(locals.edges[k].s).action, Denoted(locals.edges[k].t).action}
       = {"exploring", "making"}}

\* The positions of the valid edges whose endpoints differ in macro.
CrossEdges ==
  {k \in 1..Len(locals.edges) :
     Denoted(locals.edges[k].s).macro # Denoted(locals.edges[k].t).macro}

\* v is the percentage |num| / |den|, 0 for an empty den, and lies in [0,100].
IsShare(v, num, den) ==
  /\ IF den = {} THEN v = Zero
     ELSE FracEq(v, Frac(100 * Cardinality(num), Cardinality(den)))
  /\ FracLe(Zero, v) /\ FracLe(v, Hundred)

\* C21: crossMacroShare and macroEdgeCoverage are the shares of cross-macro
\* edges among the classified edges and of classified edges among the valid
\* edges; crossInterlacingShare and interlacingMacroCoverage are the same
\* over the E->M and M->E edges; each is in [0,100] and 0 for a denominator 0.
C21_MacroShares ==
  (pc = "loop" /\ Computed) =>
    /\ IsShare(LastMetrics.crossMacroShare, ClassifiedEdges \cap CrossEdges, ClassifiedEdges)
    /\ IsShare(LastMetrics.macroEdgeCoverage, ClassifiedEdges, 1..Len(locals.edges))
    /\ IsShare(LastMetrics.crossInterlacingShare,
               ClassifiedEdges \cap CrossEdges \cap ModeEdges, ClassifiedEdges \cap ModeEdges)
    /\ IsShare(LastMetrics.interlacingMacroCoverage, ClassifiedEdges \cap ModeEdges, ModeEdges)

\* Two edges, one between nodes of different buckets and one with a node of
\* two buckets at one end: the coverage is 50 and the cross share 100.
C21_Witness ==
  /\ pc = "loop" /\ Computed
  /\ Len(locals.edges) = 2
  /\ Cardinality(ClassifiedEdges) = 1
  /\ \E k \in 1..2 : "mixed" \in {Denoted(locals.edges[k].s).macro, Denoted(locals.edges[k].t).macro}
  /\ FracEq(LastMetrics.macroEdgeCoverage, Frac(50, 1))
  /\ FracEq(LastMetrics.crossMacroShare, Hundred)

\* Edges exist and none is classified: both shares over them are 0.
C21_WitnessZero ==
  /\ pc = "loop" /\ Computed
  /\ Len(locals.edges) = 2 /\ ModeEdges # {}
  /\ ClassifiedEdges = {}
  /\ LastMetrics.crossMacroShare = Zero
  /\ LastMetrics.crossInterlacingShare = Zero

-----------------------------------------------------------------------------
(* Claims about the options of the run (SpecArgs) *)

\* The numbers the value arguments of the corpus denote.
ArgNumber ==
  [v \in {"0", "-3", "2", "5", "2.5", "4.5"} |->
     CASE v = "0" -> Frac(0, 1) [] v = "-3" -> Frac(0 - 3, 1) [] v = "2" -> Frac(2, 1)
       [] v = "5" -> Frac(5, 1) [] v = "2.5" -> Frac(5, 2) [] v = "4.5" -> Frac(9, 2)]

\* The value given to the option flag in a command line of flag/value pairs:
\* the argument after its last occurrence, "" when there is none.
GivenValue(a, flag) ==
  LET at == {i \in 1..Len(a) : i % 2 = 1 /\ a[i] = flag}
      i  == CHOOSE j \in at : \A k \in at : k <= j
  IN  IF at = {} \/ i = Len(a) THEN "" ELSE a[i + 1]

\* The option is the number given when that is a finite number of at least
\* low, and the default otherwise.
OptionFrom(a, flag, low, default, option) ==
  LET v == GivenValue(a, flag)
  IN  IF v \in DOMAIN ArgNumber /\ FracLe(Frac(low, 1), ArgNumber[v])
      THEN FracEq(option, ArgNumber[v])
      ELSE option = Frac(default, 1)

\* C22: the effective hub threshold is an integer >= 1 and the effective week
\* cap an integer >= 4, and with them neither the metrics nor the timeline
\* fail.
C22_EffectiveConfiguration ==
  pc # "start" =>
    /\ IsInteger(opts.hubThreshold) /\ FracLe(Frac(1, 1), opts.hubThreshold)
    /\ IsInteger(opts.maxWeeks) /\ FracLe(Frac(4, 1), opts.maxWeeks)
    /\ pc # "crashed"

\* What parseArgs guarantees: finite numbers of at least 1 and 4; the run ends
\* without failure exactly when the week cap is an integer.
C22_OptionsInRange ==
  pc # "start" =>
    /\ FracLe(Frac(1, 1), opts.hubThreshold)
    /\ FracLe(Frac(4, 1), opts.maxWeeks)
    /\ (pc = "crashed") => ~IsInteger(opts.maxWeeks)
    /\ (pc = "done") => IsInteger(opts.maxWeeks)

\* Missing, non-numeric and out-of-range values give the defaults; the other
\* values are taken as given.
C22_Fallback ==
  [][(pc = "start" /\ \A i \in 1..Len(args) : (i % 2 = 1) => args[i] \in {"--hub-threshold", "--max-weeks"})
       => /\ OptionFrom(args, "--hub-threshold", 1, HubThreshold, opts'.hubThreshold)
          /\ OptionFrom(args, "--max-weeks", 4, DefaultMaxWeeks, opts'.maxWeeks)]_vars

\* --max-weeks 4.5 was accepted and the run failed.
C22_Witness ==
  /\ pc = "crashed"
  /\ FracEq(opts.maxWeeks, Frac(9, 2))
  /\ opts.hubThreshold = Frac(HubThreshold, 1)
  /\ Len(metrics) = 1

\* --hub-threshold 2.5 was accepted: the run ends with a threshold that is
\* no integer and counts the node of in-degree 3 as convergent.
C22_WitnessFraction ==
  /\ pc = "done"
  /\ FracEq(opts.hubThreshold, Frac(5, 2))
  /\ metrics[1].convergent = 1

-----------------------------------------------------------------------------
(* Claims about duplicate node ids (SpecDuplicates) *)

\* The number of nodes of the document, every occurrence of an id counted,
\* whose id has no valid edge at the given end ("s" or "t").
NodesWithoutEdgeAt(end) ==
  Cardinality({k \in 1..Len(DocOf(LastFile).nodes) :
                 \A j \in 1..Len(HubEdges) : HubEdges[j][end] # DocOf(LastFile).nodes[k].id})

\* C23: a document with duplicate node ids is processed to a record; every
\* occurrence is a node of the iteration and of the node count, and the SCC
\* traversal visits each distinct id once: each id is in exactly one component.
C23_DuplicateIds ==
  /\ pc # "crashed"
  /\ (pc = "loop" /\ Computed) =>
       LET raw   == DocOf(LastFile).nodes
           comps == locals.scc.components
       IN  /\ LastMetrics.nodes = Len(raw)
           /\ Len(locals.nodes) = Len(raw)
           /\ \A k \in 1..Len(raw) : locals.nodes[k].id = raw[k].id
           /\ LastMetrics.exploring + LastMetrics.making + LastMetrics.other = Len(raw)
           /\ LastMetrics.sources = NodesWithoutEdgeAt("t")
           /\ LastMetrics.sinks = NodesWithoutEdgeAt("s")
           /\ \A k \in 1..Len(raw) :
                Cardinality({c \in 1..Len(comps) : raw[k].id \in Range(comps[c])}) = 1
           /\ \A c \in 1..Len(comps) : Cardinality(Range(comps[c])) = Len(comps[c])
           /\ LastMetrics.largestScc <= Cardinality({raw[k].id : k \in 1..Len(raw)})

\* Three nodes with two distinct ids joined in both directions: three nodes
\* are counted and the two ids form one cyclic component.
C23_Witness ==
  /\ pc = "loop" /\ Computed
  /\ LastMetrics.nodes = 3
  /\ Cardinality({locals.nodes[k].id : k \in 1..3}) = 2
  /\ LastMetrics.sccCount = 1 /\ LastMetrics.largestScc = 2
  /\ Len(locals.scc.components) = 1

-----------------------------------------------------------------------------
(* Claims about repeated edges (SpecGraph) *)

\* C28: the valid edge count never exceeds n*(n-1), so the density of the
\* record never exceeds 100.
C28_EdgeCountBound ==
  Computed =>
    /\ LastMetrics.edges <= LastMetrics.nodes * (LastMetrics.nodes - 1)
    /\ FracLe(LastMetrics.density, Hundred)

\* Two nodes with distinct ids and three valid edges between them, one of
\* them a copy: the record counts more edges than ordered pairs of nodes.
C28_Witness ==
  /\ Computed
  /\ LastMetrics.nodes = 2
  /\ Len(DocOf(LastFile).nodes) = 2
  /\ DocOf(LastFile).nodes[1].id # DocOf(LastFile).nodes[2].id
  /\ LastMetrics.edges = 3
  /\ FracEq(LastMetrics.density, Frac(150, 1))

-----------------------------------------------------------------------------
(* Claims about the cohort summary (SpecCohort) *)

\* The record of the project of a given name.
MetricsOfProject(name) == metrics[CHOOSE k \in 1..Len(metrics) : metrics[k].project = name]

\* The project has the data a metric is computed from.
HasData(m, key) ==
  CASE key = "interlacingIndex"      -> m.activeBuckets > 0
    [] key = "overlapIntensity"      -> m.activeBuckets > 0
    [] key = "conversionRate"        -> m.exploring > 0
    [] key = "feedbackRatio"         -> m.eToMEdges > 0
    [] key = "crossInterlacingShare" -> m.interlacingMacroCoverage[1] > 0
    [] key = "leadtimeMedianDays"    -> m.leadtimeMedianDays.ok

DataKeys ==
  {"interlacingIndex", "overlapIntensity", "conversionRate", "feedbackRatio",
   "crossInterlacingShare", "leadtimeMedianDays"}

SameNumber(a, b) == (a.ok = b.ok) /\ (a.ok => FracEq(a.v, b.v))

\* C14: the mean, median, min and max of a metric are taken over the
\* projects that have the data of that metric; a project without them
\* contributes no value, in particular no 0.
C14_AggregateOnlyWithData ==
  pc = "done" =>
    \A key \in DataKeys :
      LET with == SelectSeq(metrics, LAMBDA m : HasData(m, key))
          vals == [k \in 1..Len(with) |-> MetricValue(with[k], key)]
          a    == summary.agg[key]
      IN  /\ SameNumber(a.mean, mean(vals))
          /\ SameNumber(a.median, median(vals))
          /\ SameNumber(a.min, minmax(vals).min)
          /\ SameNumber(a.max, minmax(vals).max)

\* What the aggregation does: every value that is a finite number counts,
\* the 0 of a project without the data included; only null is left out.
C14_AggregateFiniteValues ==
  pc = "done" =>
    \A key \in Range(numericKeys) :
      LET vals == [k \in 1..Len(metrics) |-> MetricValue(metrics[k], key)]
          a    == summary.agg[key]
      IN  /\ SameNumber(a.mean, mean(vals))
          /\ SameNumber(a.median, median(vals))
          /\ a.min.ok = (\E k \in 1..Len(vals) : IsFinite(vals[k]))
          /\ a.max.ok = a.min.ok
          /\ \A k \in 1..Len(vals) :
               IsFinite(vals[k]) => (FracLe(a.min.v, vals[k].v) /\ FracLe(vals[k].v, a.max.v))
          /\ a.min.ok => \E k, j \in 1..Len(vals) :
                            /\ IsFinite(vals[k]) /\ FracEq(a.min.v, vals[k].v)
                            /\ IsFinite(vals[j]) /\ FracEq(a.max.v, vals[j].v)

\* A cohort of a project with a conversion rate of 50 and a project without
\* exploring nodes: the mean is 25 and the minimum 0.
C14_Witness ==
  /\ pc = "done"
  /\ Len(metrics) = 2
  /\ metrics[1].exploring = 2 /\ FracEq(metrics[1].conversionRate, Frac(50, 1))
  /\ metrics[2].exploring = 0
  /\ FracEq(summary.agg["conversionRate"].mean.v, Frac(25, 1))
  /\ FracEq(summary.agg["conversionRate"].min.v, Zero)

-----------------------------------------------------------------------------
(* Claims about the averaged timeline (SpecCohort) *)

\* The project has at least one dated exploring or making node.
HasDatedActivity(pf) == Len(TimelineNodes(DocOf(pf).nodes)) > 0

\* The number of exploring (field "ex") or making (field "mk") nodes of the
\* project that fall in week i, counted from the week of its earliest one.
WeekCount(pf, i, field) ==
  LET em == TimelineNodes(DocOf(pf).nodes)
      at(act) == Cardinality({k \in 1..Len(em) :
                    WeekOf(em[k].date, TimelineMin(em)) = i - 1 /\ em[k].action = act})
  IN  IF field = "ex" THEN at(sExploring) ELSE at(sMaking)

\* The sum of WeekCount over the contributing projects among the first k.
RECURSIVE CohortWeekCount(_, _, _)
CohortWeekCount(k, i, field) ==
  IF k = 0 THEN 0
  ELSE CohortWeekCount(k - 1, i, field)
       + (IF HasDatedActivity(projectFiles[k]) THEN WeekCount(projectFiles[k], i, field) ELSE 0)

Contributing == {k \in 1..Len(projectFiles) : HasDatedActivity(projectFiles[k])}

\* Week i of the result is the average of the contributing projects.
AveragedWeek(w, i) ==
  LET n  == Cardinality(Contributing)
      ex == CohortWeekCount(Len(projectFiles), i, "ex")
      mk == CohortWeekCount(Len(projectFiles), i, "mk")
  IN  /\ w.week = i
      /\ FracEq(w.ex, Frac(ex, n))
      /\ FracEq(w.mk, Frac(mk, n))
      /\ FracEq(w.total, Frac(ex + mk, n))

\* C15: the averaged timeline has, at each week below the cap, the sum of the
\* contributing projects' counts divided by their number; it has at most cap
\* weeks, it ends at the last week whose total is not zero, and it is empty
\* for a cohort without dated activity.
C15_AverageTimeline ==
  pc = "done" =>
    LET weeks == summary.timeline.weeks
        cap   == WeekCap(opts)
        all   == Len(projectFiles)
    IN  /\ Len(weeks) <= cap
        /\ \A i \in 1..Len(weeks) : Contributing # {} /\ AveragedWeek(weeks[i], i)
        /\ Len(weeks) > 0 => weeks[Len(weeks)].total[1] # 0
        /\ \A i \in (Len(weeks) + 1)..cap :
             CohortWeekCount(all, i, "ex") + CohortWeekCount(all, i, "mk") = 0
        /\ Contributing = {} => weeks = <<>>

\* What buildAverageTimeline returns: the averages as stated when a project
\* contributes, and one week of zeros, with projectsUsed 1, when none does.
C15_AverageTimelineOrZeroWeek ==
  pc = "done" =>
    LET weeks == summary.timeline.weeks
        cap   == WeekCap(opts)
        all   == Len(projectFiles)
    IN  IF Contributing = {}
        THEN summary.timeline =
               [projectsUsed |-> 1,
                weeks |-> <<[week |-> 1, ex |-> Frac(0, 1), mk |-> Frac(0, 1),
                             total |-> Frac(0, 1)]>>]
        ELSE /\ summary.timeline.projectsUsed = Cardinality(Contributing)
             /\ Len(weeks) \in 1..cap
             /\ \A i \in 1..Len(weeks) : AveragedWeek(weeks[i], i)
             /\ weeks[Len(weeks)].total[1] # 0
             /\ \A i \in (Len(weeks) + 1)..cap :
                  CohortWeekCount(all, i, "ex") + CohortWeekCount(all, i, "mk") = 0

\* A cohort of two projects without a dated node: the timeline has one week.
C15_Witness ==
  /\ pc = "done"
  /\ Len(projectFiles) = 2
  /\ Contributing = {}
  /\ Len(summary.timeline.weeks) = 1
  /\ summary.timeline.weeks[1].total[1] = 0

\* A cohort whose second project has a node beyond the cap and whose
\* averaged timeline is trimmed to fewer weeks than the cap.
C15_WitnessTrimmed ==
  /\ pc = "done"
  /\ Cardinality(Contributing) = 2
  /\ Len(summary.timeline.weeks) \in 2..(WeekCap(opts) - 1)
  /\ \E k \in Contributing :
       LET em == TimelineNodes(DocOf(projectFiles[k]).nodes)
       IN  \E a \in 1..Len(em) :
             WeekOf(em[a].date, TimelineMin(em)) >= WeekCap(opts)

-----------------------------------------------------------------------------
(* Claims about the two report builders (SpecCohort) *)

\* C27: the HTML and the DOCX builder give the same value for every record
\* field both define, the same aggregate for every metric both aggregate and
\* the same average timeline, also when no project has a dated E/M node.
C27_BuildersEquivalent ==
  pc = "done" =>
    LET docx == DocxSummary(metrics, opts)
    IN  /\ docx.projectCount = summary.projectCount
        /\ \A k \in 1..Len(metrics) :
             \A f \in DOMAIN DocxRecord(metrics[k]) : DocxRecord(metrics[k])[f] = metrics[k][f]
        /\ \A key \in Range(numericKeysDocx) : docx.agg[key] = summary.agg[key]
        /\ docx.timeline = summary.timeline

\* What holds of the two builders: they agree on everything but the timeline
\* of a cohort without a dated E/M node, and on the timeline otherwise.
C27_EquivalentWithTimeline ==
  pc = "done" =>
    LET docx == DocxSummary(metrics, opts)
    IN  /\ \A key \in Range(numericKeysDocx) : docx.agg[key] = summary.agg[key]
        /\ Contributing # {} => docx.timeline = summary.timeline
        /\ Contributing = {} =>
             /\ docx.timeline = [projectsUsed |-> 0, weeks |-> <<>>]
             /\ summary.timeline.projectsUsed = 1 /\ Len(summary.timeline.weeks) = 1

\* A finished run over two projects of which none has a dated E/M node.
C27_Witness ==
  /\ pc = "done"
  /\ Len(projectFiles) = 2
  /\ Contributing = {}
  /\ DocxSummary(metrics, opts).timeline.projectsUsed = 0
  /\ summary.timeline.projectsUsed = 1

\* A finished run in which two projects contribute and the builders agree.
C27_WitnessAgree ==
  /\ pc = "done"
  /\ Cardinality(Contributing) = 2
  /\ DocxSummary(metrics, opts).timeline = summary.timeline
  /\ Len(summary.timeline.weeks) >= 2

-----------------------------------------------------------------------------
(* Claims about the records of the run (SpecCohort) *)

\* The record m is in ms, with the same fields and the same values.
RecordKept(m, ms) == \E j \in 1..Len(ms) : ms[j] = m

\* The record m is in ms with its fields unchanged; ms may give it more fields.
RecordExtended(m, ms) ==
  \E j \in 1..Len(ms) :
    /\ DOMAIN m \subseteq DOMAIN ms[j]
    /\ \A f \in DOMAIN m : ms[j][f] = m[f]

\* C16: once computeMetricsForProject has returned a record, no step of the
\* run changes one of its fields or gives it a new field.
C16_RecordsNeverMutated ==
  [][\A k \in 1..Len(metrics) : RecordKept(metrics[k], metrics')]_vars

\* What the run does to a record: its fields keep their values, and
\* computePerProjectTimelines adds the field __timeline.
C16_RecordsOnlyExtended ==
  [][\A k \in 1..Len(metrics) : RecordExtended(metrics[k], metrics')]_vars

\* After computePerProjectTimelines the record of a project with dated
\* exploring or making nodes has the field __timeline, which
\* computeMetricsForProject did not return.
C16_Witness ==
  /\ pc = "summary"
  /\ \E k \in 1..Len(metrics) :
       /\ "__timeline" \in DOMAIN metrics[k]
       /\ "__timeline" \notin DOMAIN computeMetricsForProject(projectFiles[k].name,
                                                              DocOf(projectFiles[k]), opts)

-----------------------------------------------------------------------------
(* Claims about the independence of the projects (SpecCohort) *)

\* Two project files hold the same document.
SameDocument(f, g) == f.kind = g.kind /\ f.nodes = g.nodes /\ f.edges = g.edges

\* The record without the name of its project.
WithoutProject(m) == [f \in DOMAIN m \ {"project"} |-> m[f]]

\* The record of computeMetricsForProject on the document of pf alone, with
\* the timeline computePerProjectTimelines adds once the loop has ended.
RecordAlone(pf) ==
  LET m == computeMetricsForProject(pf.name, DocOf(pf), opts)
  IN  IF pc \in {"summary", "done"} /\ HasDatedActivity(pf)
      THEN ("__timeline" :> ProjectTimeline(TimelineNodes(DocOf(pf).nodes),
                                            WeekCap(opts))) @@ m
      ELSE m

-----------------------------------------------------------------------------
(* Claims about the batch run (Spec) *)

\* A project whose document cannot be used: the text does not parse, or the
\* value is not an object with array members nodes and edges.
BrokenFile(pf) ==
  pf.kind \in {"malformed", "null"} \/ ~pf.nodes.isArray \/ ~pf.edges.isArray

\* The per-project error entries of the result set: main keeps `metrics`,
\* the totals and `flagged`, and records no error anywhere.
ErrorEntries == {}

\* C3: in the batch loop a project whose document fails to parse or is
\* structurally impossible is skipped with a recorded per-project error,
\* every other project is processed and reported, and no exception ends the
\* run.
C3_BatchSurvivesBrokenProject ==
  /\ pc # "crashed"
  /\ pc = "summary" =>
       \A k \in 1..Len(projectFiles) :
         IF BrokenFile(projectFiles[k])
         THEN /\ projectFiles[k].name \in ErrorEntries
              /\ \A j \in 1..Len(metrics) : metrics[j].project # projectFiles[k].name
         ELSE \E j \in 1..Len(metrics) : metrics[j].project = projectFiles[k].name

\* The run has ended on an exception although a project of the corpus is a
\* well-formed document: that project is reported nowhere.
C3_Witness ==
  /\ pc = "crashed"
  /\ \E k \in 1..Len(projectFiles) :
       /\ ~BrokenFile(projectFiles[k])
       /\ \A j \in 1..Len(metrics) : metrics[j].project # projectFiles[k].name

-----------------------------------------------------------------------------
(* Claims about the graph of the editor (SpecStore) *)

\* The targets of the edges of es that leave a node of S.
EdgeTargets(S, es) == {es[k].target : k \in {j \in 1..Len(es) : es[j].source \in S}}

\* The nodes reached from S along at most n edges of es.
RECURSIVE ReachableFrom(_, _, _)
ReachableFrom(S, es, n) ==
  IF n = 0 THEN S ELSE ReachableFrom(S \cup EdgeTargets(S, es), es, n - 1)

\* A directed cycle of es passes through u (a self-loop included).
OnCycle(u, es) == u \in ReachableFrom(EdgeTargets({u}, es), es, Len(es))

\* C24: the graph of the store is acyclic in every state: no edge is a
\* self-loop and no node lies on a directed cycle.
C24_AlwaysAcyclic ==
  /\ \A k \in 1..Len(state.edges) : state.edges[k].source # state.edges[k].target
  /\ \A k \in 1..Len(state.edges) : ~OnCycle(state.edges[k].source, state.edges)

\* The imported chain of a and b with a connection drawn back from b to a.
C24_Witness ==
  /\ UuidsOf(state.nodes) = {"a", "b"}
  /\ Len(state.edges) = 2
  /\ state.edges[2].id = "u1"
  /\ state.edges[1].source = state.edges[2].target
  /\ state.edges[1].target = state.edges[2].source
  /\ state.edges[1].source # state.edges[1].target

\* A connection drawn from a node to itself.
C24_WitnessLoop ==
  /\ Len(state.edges) = 1
  /\ state.edges[1].source = state.edges[1].target
  /\ state.edges[1].source \in UuidsOf(state.nodes)

-----------------------------------------------------------------------------
(* Claims about deleteNode (SpecStore) *)

\* t lists the entries of s at the positions in K, in the order of s.
ListsEntriesAt(s, t, K) ==
  /\ Len(t) = Cardinality(K)
  /\ \A k \in K : t[Cardinality({j \in K : j <= k})] = s[k]

\* What deleteNode(u) does to the store.
DeletesNode(u) ==
  /\ ListsEntriesAt(state.nodes, state'.nodes,
                    {k \in 1..Len(state.nodes) : state.nodes[k].uuid # u})
  /\ ListsEntriesAt(state.edges, state'.edges,
                    {k \in 1..Len(state.edges) :
                       state.edges[k].source # u /\ state.edges[k].target # u})
  /\ state'.selectedNodeId = (IF state.selectedNodeId = u THEN NullId ELSE state.selectedNodeId)
  /\ state'.nextNodeId = state.nextNodeId
  /\ UNCHANGED <<idb, pending, uuidCount>>

\* Every edge of the store joins two nodes of the store.
EndpointsExist ==
  \A k \in 1..Len(state.edges) :
    {state.edges[k].source, state.edges[k].target} \subseteq UuidsOf(state.nodes)

\* C29: deleteNode(u) removes the node u and the edges at u, clears the
\* selection if it was u and changes nothing else; with edges added between
\* existing nodes only, every edge of every state joins existing nodes.
C29_DeleteNodeFrame ==
  /\ []EndpointsExist
  /\ [][DeleteNode => \E u \in UuidsOf(state.nodes) : DeletesNode(u)]_vars

\* The second of two nodes of the editor is left, selected, after the first
\* node and the edge between them have gone.
C29_Witness ==
  /\ uuidCount = 3
  /\ UuidsOf(state.nodes) = {"u2"}
  /\ state.edges = <<>>
  /\ state.selectedNodeId = "u2"
  /\ state.nextNodeId = Frac(3, 1)

-----------------------------------------------------------------------------
(* Claims about the node ids of the editor (SpecIds) *)

\* The text is N<k> for a positive integer k.
IsIncrementalId(id) ==
  /\ Len(id) >= 2
  /\ id[1] = "N"
  /\ \A i \in 2..Len(id) : id[i] \in Range(DigitOrder)
  /\ id[2] # "0"

IdsOf(ns) == {ns[k].id : k \in 1..Len(ns)}

IdsDistinct == Cardinality(IdsOf(state.nodes)) = Len(state.nodes)

\* The step appends one node, whose id is N<k> and is the id of no node of
\* the graph before the step.
AssignsFreshId ==
  /\ Len(state'.nodes) = Len(state.nodes) + 1
  /\ IsIncrementalId(state'.nodes[Len(state'.nodes)].id)
  /\ state'.nodes[Len(state'.nodes)].id \notin IdsOf(state.nodes)

\* C25: every addNode gives the new node an id N<k>, k a positive integer,
\* that no node of the graph has; the ids of the graph stay pairwise distinct.
C25_IncrementalIds ==
  /\ []IdsDistinct
  /\ [][AddNode => AssignsFreshId]_vars

\* What holds of addNode: the id is N<k> and new whenever nextNodeId is a
\* number, which it is unless a loaded or imported node has an id without
\* digits after its first character.
C25_IncrementalIdsOfNumbered ==
  [][(AddNode /\ state.nextNodeId # NaN) => AssignsFreshId]_vars

\* Two nodes added after an import of a node with the id "draft".
C25_Witness ==
  /\ Len(state.nodes) = 3
  /\ state.nodes[1].id = <<"d", "r", "a", "f", "t">>
  /\ state.nodes[2].id = <<"N", "N", "a", "N">>
  /\ state.nodes[3].id = state.nodes[2].id
  /\ state.nodes[2].uuid # state.nodes[3].uuid

\* A node added after a load of a saved graph from which N1 had been deleted.
C25_WitnessLoad ==
  /\ idb.found
  /\ IdsOf(idb.nodes) = {<<"N", "2">>}
  /\ Len(state.nodes) = 2
  /\ state.nodes[1].id = <<"N", "2">>
  /\ state.nodes[2].id = <<"N", "3">>
  /\ uuidCount = 3

-----------------------------------------------------------------------------
(* Claims about saving (SpecSave) *)

\* The IndexedDB entry holds the nodes and edges of the store.
Persisted == idb.nodes = state.nodes /\ idb.edges = state.edges

\* C26: whenever the nodes or edges of the store differ from the persisted
\* document, the persisted document eventually equals them, the user not
\* being required to save.
C26_AutoSave == (~Persisted) ~> Persisted

\* What holds: the entry changes only in a saveToIndexedDB step.
C26_SavedByHandOnly == [][idb' # idb => SaveToIndexedDB]_vars

\* A node has been added, no call is suspended and the entry is still absent.
C26_Witness ==
  /\ Len(state.nodes) = 1
  /\ pending = {}
  /\ ~idb.found
  /\ ~Persisted

-----------------------------------------------------------------------------
(* Claims about addFileToNode (SpecFiles) *)

\* The ids of the assets in the files of the nodes, one entry per occurrence.
AssetOccurrences ==
  {<<k, i>> \in (1..Len(state.nodes)) \X (1..MaxUuids + 1) :
     i <= Len(state.nodes[k].files)}

AssetsOnce ==
  /\ \A p \in AssetOccurrences, q \in AssetOccurrences :
       state.nodes[p[1]].files[p[2]].id = state.nodes[q[1]].files[q[2]].id => p = q
  /\ \A call \in pending, p \in AssetOccurrences :
       call.kind = "addFile" => state.nodes[p[1]].files[p[2]].id # call.assetRef.id

\* The resumed call appends its asset to the files of its node as they are
\* now, leaves the other nodes as they are, and does nothing without its node.
AttachesAsset(call) ==
  /\ pending' = pending \ {call}
  /\ Len(state'.nodes) = Len(state.nodes)
  /\ \A k \in 1..Len(state.nodes) :
       IF state.nodes[k].uuid = call.nodeId
       THEN /\ state'.nodes[k].files = state.nodes[k].files \o <<call.assetRef>>
            /\ state'.nodes[k].id = state.nodes[k].id
            /\ state'.nodes[k].uuid = state.nodes[k].uuid
       ELSE state'.nodes[k] = state.nodes[k]
  /\ state'.edges = state.edges
  /\ state'.selectedNodeId = state.selectedNodeId
  /\ state'.nextNodeId = state.nextNodeId

\* C30: a resumed addFileToNode adds its asset to what the node holds at that
\* moment, so that overlapping calls lose nothing and no asset is held twice;
\* if its node is gone it changes no node and creates none.
C30_AddFileInterleaving ==
  /\ []AssetsOnce
  /\ [][AddFileToNodeResume => \E call \in pending : AttachesAsset(call)]_vars

\* Of two overlapping calls for one node, the later has attached its asset
\* while the earlier is still suspended.
C30_Witness ==
  \E call \in pending, k \in 1..Len(state.nodes) :
    /\ call.kind = "addFile"
    /\ call.nodeId = state.nodes[k].uuid
    /\ Len(state.nodes[k].files) = 1
    /\ call.assetRef.id = "u2"
    /\ state.nodes[k].files[1].id = "u3"

\* Both overlapping calls have completed: the node holds the two assets.
C30_WitnessBoth ==
  /\ pending = {}
  /\ \E k \in 1..Len(state.nodes) :
       /\ Len(state.nodes[k].files) = 2
       /\ state.nodes[k].files[1].id # state.nodes[k].files[2].id

\* A call is suspended and its node has been deleted.
C30_WitnessDeleted ==
  /\ state.nodes = <<>>
  /\ \E call \in pending : call.kind = "addFile" /\ call.nodeId = "u1"

=============================================================================
